---- MODULE Spec2Model ----
(***************************************************************************)
(* Model of the meta-ads-mcp backend: the credential check of each router, *)
(* the chat message handler with its keyword dispatch and response         *)
(* composer, the recommendation generator, the Graph API client and the    *)
(* /meta route handlers.                                                   *)
(*                                                                         *)
(* Every action is one whole request (or one whole call of a handler): it  *)
(* draws the request and the outcome of every external collaborator        *)
(* (identity provider, MCP tool, Graph API) from small sets and records    *)
(* the request, the response and what the handler did on the way.          *)
(*                                                                         *)
(* Number encoding: percentages (ctr) are integers in hundredths of a      *)
(* percent (2.56 is 256); money is an integer in minor units (cents), so   *)
(* x / 100 printed with two decimals is carried as the cents themselves.   *)
(* Text is a sequence of one-character strings, so that lower-casing and   *)
(* the substring test `kw in text` are computed and not assumed.           *)
(***************************************************************************)
EXTENDS Integers, Sequences, FiniteSets, TLC

VARIABLES
    req,      \* the request served last: route, entry point and inputs
    resp,     \* its response: status and body, or status and detail
    calls,    \* the outbound calls (MCP tool / Graph API) issued while serving it
    minted,   \* the access tokens created while serving it
    ran,      \* whether the body of the route handler was entered
    session   \* the tokens a client holds, and whether it has logged out

vars == <<req, resp, calls, minted, ran, session>>

(***************************************************************************)
(* Bounds of the model.                                                    *)
(***************************************************************************)
MaxWords == 2        \* words in a generated chat message
MaxCampaigns == 2    \* campaigns in a fetched campaign list
MaxInsights == 2     \* records in a fetched insight list

SeqsUpTo(S, n) == UNION {[1..k -> S] : k \in 0..n}

(***************************************************************************)
(* Python values.                                                          *)
(***************************************************************************)
None == [none |-> TRUE]
EmptyDict == <<>>
Truthy(d) == d # None /\ DOMAIN d # {}

\* exceptions: a Python exception of a given class, and fastapi.HTTPException
Exception(class) == [class |-> class]
HTTPException(status_code, detail) ==
    [class |-> "HTTPException", status |-> status_code, detail |-> detail]

\* str(e)
Str(e) == IF e.class = "HTTPException" THEN <<e.status, e.detail>> ELSE <<e.class>>

\* the response FastAPI sends for an HTTPException that leaves a handler
ErrorResponse(e) == [status |-> e.status, detail |-> e.detail]

\* a raised exception, and a returned value
Raise(e) == [raised |-> e]
Return(v) == [value |-> v]
Raised(o) == "raised" \in DOMAIN o

\* dict.get(key, default)
Get(d, key, default) == IF key \in DOMAIN d THEN d[key] ELSE default

RECURSIVE SumOver(_, _)
SumOver(s, key) ==
    IF s = <<>> THEN 0 ELSE Get(Head(s), key, 0) + SumOver(Tail(s), key)

(***************************************************************************)
(* Text: str.lower() and the substring test.                               *)
(***************************************************************************)
UpperCase == <<"A","B","C","D","E","F","G","H","I","J","K","L","M","N","O","P","Q","R","S","T","U","V","W","X","Y","Z">>
LowerCase == <<"a","b","c","d","e","f","g","h","i","j","k","l","m","n","o","p","q","r","s","t","u","v","w","x","y","z">>

\* the lower-case letter of every upper-case letter
LowerMap ==
    [ch \in {UpperCase[i] : i \in 1..Len(UpperCase)} |->
        LowerCase[CHOOSE i \in 1..Len(UpperCase) : UpperCase[i] = ch]]

LowerChar(ch) == IF ch \in DOMAIN LowerMap THEN LowerMap[ch] ELSE ch

\* str.lower(), as a sequence of the same length
lower(text) == SubSeq([i \in 1..Len(text) |-> LowerChar(text[i])], 1, Len(text))

\* kw in text
Contains(text, kw) ==
    \/ kw = <<>>
    \/ \E i \in 1..(Len(text) - Len(kw) + 1) :
           text[i] = kw[1] /\ SubSeq(text, i, i + Len(kw) - 1) = kw

\* any(keyword in text for keyword in kws)
AnyIn(text, kws) == \E kw \in kws : Contains(text, kw)

Kw_account == <<"a","c","c","o","u","n","t">>
Kw_accounts == <<"a","c","c","o","u","n","t","s">>
Kw_campaign == <<"c","a","m","p","a","i","g","n">>
Kw_campaigns == <<"c","a","m","p","a","i","g","n","s">>
Kw_insight == <<"i","n","s","i","g","h","t">>
Kw_performance == <<"p","e","r","f","o","r","m","a","n","c","e">>
Kw_spend == <<"s","p","e","n","d">>
Kw_trend == <<"t","r","e","n","d">>
Kw_adset == <<"a","d","s","e","t">>
Kw_ad_set == <<"a","d"," ","s","e","t">>
Kw_targeting == <<"t","a","r","g","e","t","i","n","g">>
Kw_ad == <<"a","d">>
Kw_ads == <<"a","d","s">>
Kw_creative == <<"c","r","e","a","t","i","v","e">>
Kw_chart == <<"c","h","a","r","t">>
Kw_graph == <<"g","r","a","p","h">>
Kw_visualize == <<"v","i","s","u","a","l","i","z","e">>
Kw_show == <<"s","h","o","w">>
Kw_how == <<"h","o","w">>

AccountKeywords == {Kw_account, Kw_accounts}
CampaignKeywords == {Kw_campaign, Kw_campaigns}
InsightKeywords == {Kw_insight, Kw_performance, Kw_spend, Kw_trend}
AdsetKeywords == {Kw_adset, Kw_ad_set, Kw_targeting}
AdKeywords == {Kw_ad, Kw_ads, Kw_creative}
ChartKeywords == {Kw_chart, Kw_graph, Kw_visualize, Kw_show}

(***************************************************************************)
(* Chat messages: a few fixed texts, and every text of at most MaxWords    *)
(* words of a small vocabulary joined by single spaces.                    *)
(***************************************************************************)
MsgCampaignsAndAccounts == <<"s","h","o","w"," ","m","e"," ","m","y"," ","c","a","m","p","a","i","g","n","s"," ","a","n","d"," ","a","c","c","o","u","n","t","s">>
MsgShowCampaigns == <<"S","h","o","w"," ","m","e"," ","m","y"," ","c","a","m","p","a","i","g","n","s">>
MsgSpendTrendChart == <<"s","p","e","n","d"," ","t","r","e","n","d"," ","c","h","a","r","t">>
MsgAdSetTargeting == <<"a","d"," ","s","e","t"," ","t","a","r","g","e","t","i","n","g">>
MsgHowAreYou == <<"h","o","w"," ","a","r","e"," ","y","o","u">>
MsgCreative == <<"c","r","e","a","t","i","v","e">>

FixedMessages ==
    {MsgCampaignsAndAccounts, MsgShowCampaigns, MsgSpendTrendChart,
     MsgAdSetTargeting, MsgHowAreYou, MsgCreative}

Vocabulary ==
    { <<"s","h","o","w">>,
      <<"a","c","c","o","u","n","t","s">>,
      <<"C","a","m","p","a","i","g","n","s">>,
      <<"p","e","r","f","o","r","m","a","n","c","e">>,
      <<"a","d","s","e","t","s">>,
      <<"a","d","s">>,
      <<"h","e","l","l","o">> }

RECURSIVE Join(_)
Join(ws) ==
    IF ws = <<>> THEN <<>>
    ELSE IF Len(ws) = 1 THEN ws[1]
    ELSE ws[1] \o <<" ">> \o Join(Tail(ws))

Messages == FixedMessages \cup {Join(ws) : ws \in SeqsUpTo(Vocabulary, MaxWords)}

(***************************************************************************)
(* Bearer tokens and the identity provider.                                *)
(***************************************************************************)
UserIds == {"u1", "u2"}
NoSub == "-"

\* users the identity provider holds
RegisteredUsers == {"u1"}

Garbage == [form |-> "garbage", sig |-> "bad", expired |-> FALSE, sub |-> NoSub]

TokenPool ==
    {Garbage} \cup
    [form : {"jwt"}, sig : {"good", "bad"}, expired : BOOLEAN, sub : UserIds \cup {NoSub}]

\* outcome of the identity provider call of one request
IdpStates == {"up", "down"}

\* a decoder that does not check the exp claim
jwt_decode_NoExpiry(token) ==
    IF token.form # "jwt" \/ token.sig # "good"
    THEN Raise(Exception("JWTError"))
    ELSE Return([sub |-> token.sub])

\* jose.jwt.decode: JWTError for a malformed token, a bad signature or an
\* expired token; otherwise the payload
jwt_decode(token) ==
    IF token.form # "jwt" \/ token.sig # "good" \/ token.expired
    THEN Raise(Exception("JWTError"))
    ELSE Return([sub |-> token.sub])

verify_token(token) ==
    LET decoded == jwt_decode(token) IN
    IF Raised(decoded) THEN None
    ELSE IF decoded.value.sub = NoSub THEN None
    ELSE [user_id |-> decoded.value.sub]

UserOf(user_id) ==
    [id |-> user_id, is_active |-> TRUE, meta_access_token |-> "EAAB"]

\* a lookup that no longer finds a user once the client has logged out
get_user_by_id_SignedOut(user_id, idp) ==
    IF idp = "down" \/ session.loggedOut THEN None
    ELSE IF user_id \in RegisteredUsers THEN UserOf(user_id)
    ELSE None

get_user_by_id(user_id, idp) ==
    IF idp = "down" THEN None
    ELSE IF user_id \in RegisteredUsers THEN UserOf(user_id)
    ELSE None

\* the dependency of the /auth and /chat routers
get_current_user(token, idp) ==
    LET token_data == verify_token(token) IN
    IF token_data = None
    THEN Raise(HTTPException(401, "Could not validate credentials"))
    ELSE LET user == get_user_by_id(token_data.user_id, idp) IN
         IF user = None
         THEN Raise(HTTPException(401, "User not found"))
         ELSE Return(user)

(***************************************************************************)
(* The MCP integration of the chat router.  call_mcp_tool returns what the *)
(* tool's server returns: the records come from the pools below, which     *)
(* hold the records of the shipped placeholder implementation and records  *)
(* at and around the thresholds of the recommendation rules.               *)
(***************************************************************************)
AccountPool ==
    { [id |-> "act_123456789", name |-> "Main Ad Account", status |-> "ACTIVE"],
      [id |-> "act_987654321", name |-> "Secondary Account", status |-> "ACTIVE"] }

CampaignSummerSale ==
    [name |-> "Summer Sale Campaign", status |-> "ACTIVE", ctr |-> 256, spend |-> 2450]
CampaignBrandAwareness ==
    [name |-> "Brand Awareness", status |-> "PAUSED", ctr |-> 135, spend |-> 1890]

CampaignPool ==
    { CampaignSummerSale,
      CampaignBrandAwareness,
      [name |-> "At Thresholds", status |-> "ACTIVE", ctr |-> 150, spend |-> 2000],
      [name |-> "Low And Costly", status |-> "ACTIVE", ctr |-> 120, spend |-> 2500],
      [name |-> "Paused Costly", status |-> "PAUSED", ctr |-> 200, spend |-> 2450],
      [name |-> "Bare", status |-> "PAUSED"] }

InsightPool ==
    { [date |-> "2024-01-01", spend |-> 100, ctr |-> 300],
      [date |-> "2024-01-02", spend |-> 120, ctr |-> 300],
      [date |-> "2024-01-03", spend |-> 110, ctr |-> 101] }

AdsetPool == { [id |-> "123456789", name |-> "Ad Set 1", status |-> "ACTIVE"] }
AdPool == { [id |-> "123456789", name |-> "Ad 1", status |-> "ACTIVE"] }

ToolAccounts == "mcp_meta_ads_get_ad_accounts"
ToolCampaigns == "mcp_meta_ads_get_campaigns"
ToolInsights == "mcp_meta_ads_get_insights"
ToolAdsets == "mcp_meta_ads_get_adsets"
ToolAds == "mcp_meta_ads_get_ads"

\* what the server of a tool can answer: a list of records, or a failure
ToolItems(tool_name) ==
    CASE tool_name = ToolAccounts -> SeqsUpTo(AccountPool, 2)
      [] tool_name = ToolCampaigns -> SeqsUpTo(CampaignPool, MaxCampaigns)
      [] tool_name = ToolInsights -> SeqsUpTo(InsightPool, MaxInsights)
      [] tool_name = ToolAdsets -> SeqsUpTo(AdsetPool, 1)
      [] tool_name = ToolAds -> SeqsUpTo(AdPool, 1)
      [] OTHER -> {<<>>}

ToolAnswers(tool_name) ==
    {[fails |-> FALSE, items |-> xs] : xs \in ToolItems(tool_name)}
    \cup {[fails |-> TRUE, items |-> <<>>]}

call_mcp_tool(tool_name, answer) ==
    IF answer.fails THEN [error |-> "tool failed"]
    ELSE CASE tool_name = ToolAccounts -> [accounts |-> answer.items]
           [] tool_name = ToolCampaigns -> [campaigns |-> answer.items]
           [] tool_name = ToolInsights -> [insights |-> answer.items]
           [] tool_name = ToolAdsets -> [adsets |-> answer.items]
           [] tool_name = ToolAds -> [ads |-> answer.items]
           [] OTHER -> [error |-> "Unknown MCP tool"]

(***************************************************************************)
(* get_ai_recommendations                                                  *)
(***************************************************************************)
LowCtrLimit == 150        \* ctr < 1.5
SpendReviewLimit == 2000  \* spend > 2000

LowCtrAdvice(campaign, ctr) ==
    [kind |-> "low_ctr", name |-> campaign.name, ctr |-> ctr]
SpendAdvice(campaign, spend) ==
    [kind |-> "spend_review", name |-> campaign.name, spend |-> spend]

\* recommendations with the CTR limit included in the low range
CampaignRecommendations_CtrAtMost(campaign) ==
    LET ctr == Get(campaign, "ctr", 0)
        spend == Get(campaign, "spend", 0)
        status == Get(campaign, "status", "")
    IN  (IF ctr <= LowCtrLimit THEN <<LowCtrAdvice(campaign, ctr)>> ELSE <<>>)
        \o (IF spend > SpendReviewLimit /\ status = "ACTIVE"
            THEN <<SpendAdvice(campaign, spend)>> ELSE <<>>)

\* recommendations whose spend review does not look at the status
CampaignRecommendations_AnyStatus(campaign) ==
    LET ctr == Get(campaign, "ctr", 0)
        spend == Get(campaign, "spend", 0)
    IN  (IF ctr < LowCtrLimit THEN <<LowCtrAdvice(campaign, ctr)>> ELSE <<>>)
        \o (IF spend > SpendReviewLimit
            THEN <<SpendAdvice(campaign, spend)>> ELSE <<>>)

\* recommendations with the spend review ahead of the low-CTR advisory
CampaignRecommendations_SpendFirst(campaign) ==
    LET ctr == Get(campaign, "ctr", 0)
        spend == Get(campaign, "spend", 0)
        status == Get(campaign, "status", "")
    IN  (IF spend > SpendReviewLimit /\ status = "ACTIVE"
         THEN <<SpendAdvice(campaign, spend)>> ELSE <<>>)
        \o (IF ctr < LowCtrLimit THEN <<LowCtrAdvice(campaign, ctr)>> ELSE <<>>)

CampaignRecommendations(campaign) ==
    LET ctr == Get(campaign, "ctr", 0)
        spend == Get(campaign, "spend", 0)
        status == Get(campaign, "status", "")
    IN  (IF ctr < LowCtrLimit THEN <<LowCtrAdvice(campaign, ctr)>> ELSE <<>>)
        \o (IF spend > SpendReviewLimit /\ status = "ACTIVE"
            THEN <<SpendAdvice(campaign, spend)>> ELSE <<>>)

\* recommendations that look at the first campaign only
RecommendationsOf_HeadOnly(campaigns) ==
    IF campaigns = <<>> THEN <<>> ELSE CampaignRecommendations(Head(campaigns))

RECURSIVE RecommendationsOf(_)
RecommendationsOf(campaigns) ==
    IF campaigns = <<>> THEN <<>>
    ELSE CampaignRecommendations(Head(campaigns)) \o RecommendationsOf(Tail(campaigns))

get_ai_recommendations(campaign_data) ==
    RecommendationsOf(Get(campaign_data, "campaigns", <<>>))

(***************************************************************************)
(* generate_chart_data: record[key] raises KeyError for a missing key.     *)
(***************************************************************************)
AllHave(records, keys) ==
    \A i \in 1..Len(records) : keys \subseteq DOMAIN records[i]

\* a quotient kept exact; n / 0 is not a value (see the callers)
Ratio(n, d) == [num |-> n, den |-> d]

\* a column read from the last record to the first
Column_Reversed(records, key) ==
    [i \in 1..Len(records) |-> records[Len(records) + 1 - i][key]]

Column(records, key) == [i \in 1..Len(records) |-> records[i][key]]

\* [record[key] / 100 for record in records]
ColumnInMajorUnits(records, key) ==
    LET column == Column(records, key) IN
    [i \in 1..Len(column) |-> Ratio(column[i], 100)]

generate_chart_data(data_type, data) ==
    IF data_type = "spend_trend"
    THEN LET insights == Get(data, "insights", <<>>) IN
         IF ~AllHave(insights, {"date", "spend"}) THEN Raise(Exception("KeyError"))
         ELSE Return([type |-> "line",
                      name |-> "spend_trend",
                      labels |-> Column(insights, "date"),
                      datasets |-> << [label |-> "Daily Spend ($)",
                                       data |-> ColumnInMajorUnits(insights, "spend")] >>])
    ELSE IF data_type = "campaign_performance"
    THEN LET campaigns == Get(data, "campaigns", <<>>) IN
         IF ~AllHave(campaigns, {"name", "ctr", "spend"}) THEN Raise(Exception("KeyError"))
         ELSE Return([type |-> "bar",
                      name |-> "campaign_performance",
                      labels |-> Column(campaigns, "name"),
                      datasets |-> << [label |-> "CTR (%)",
                                       data |-> Column(campaigns, "ctr")],
                                      [label |-> "Spend ($)",
                                       data |-> ColumnInMajorUnits(campaigns, "spend")] >>])
    ELSE Return(None)

(***************************************************************************)
(* generate_ai_response: the response text as the list response_parts,     *)
(* each part tagged with the block that appended it.                       *)
(***************************************************************************)
\* sum / n printed with two decimals (nearest hundredth)
Average(sum, n) == (2 * sum + n) \div (2 * n)

AccountLine(account) ==
    [block |-> "data", kind |-> "account", name |-> account.name,
     id |-> account.id, status |-> account.status]

CampaignLine(campaign) ==
    [block |-> "data", kind |-> "campaign", name |-> campaign.name,
     status |-> campaign.status, ctr |-> Get(campaign, "ctr", 0),
     spend |-> Get(campaign, "spend", 0)]

DataSummary(data) ==
    IF ~Truthy(data) THEN Return(<<>>)
    ELSE IF "accounts" \in DOMAIN data
    THEN LET accounts == data.accounts IN
         IF ~AllHave(accounts, {"name", "id", "status"}) THEN Raise(Exception("KeyError"))
         ELSE Return(<<[block |-> "data", kind |-> "accounts", count |-> Len(accounts)]>>
                     \o [i \in 1..Len(accounts) |-> AccountLine(accounts[i])])
    ELSE IF "campaigns" \in DOMAIN data
    THEN LET campaigns == data.campaigns IN
         IF ~AllHave(campaigns, {"name", "status"}) THEN Raise(Exception("KeyError"))
         ELSE Return(<<[block |-> "data", kind |-> "campaigns", count |-> Len(campaigns)]>>
                     \o [i \in 1..Len(campaigns) |-> CampaignLine(campaigns[i])])
    ELSE IF "insights" \in DOMAIN data
    THEN LET insights == data.insights IN
         IF Len(insights) = 0 THEN Raise(Exception("ZeroDivisionError"))
         ELSE Return(<<[block |-> "data", kind |-> "insights",
                        total_spend |-> SumOver(insights, "spend"),
                        avg_ctr |-> Average(SumOver(insights, "ctr"), Len(insights))]>>)
    ELSE Return(<<>>)

RecommendationLines(recommendations) ==
    IF recommendations = <<>> THEN <<>>
    ELSE <<[block |-> "recommendations", kind |-> "header"]>>
         \o [i \in 1..Len(recommendations) |->
                [block |-> "recommendations", kind |-> "item", rec |-> recommendations[i]]]

ChartNotice(chart_data) ==
    IF Truthy(chart_data) THEN <<[block |-> "chart", kind |-> "notice"]>> ELSE <<>>

\* a tip that is given for "performance" alone
PerformanceTip_PerformanceOnly(user_message) ==
    IF Contains(lower(user_message), Kw_performance)
    THEN <<[block |-> "tip", kind |-> "advice"]>>
    ELSE <<>>

PerformanceTip(user_message) ==
    IF Contains(lower(user_message), Kw_performance) \/ Contains(lower(user_message), Kw_how)
    THEN <<[block |-> "tip", kind |-> "advice"]>>
    ELSE <<>>

HelpMessage == <<[block |-> "help", kind |-> "help"]>>

\* a composer that puts the chart notice ahead of the recommendations
generate_ai_response_ChartNoticeFirst(user_message, data, chart_data, recommendations) ==
    LET summary == DataSummary(data) IN
    IF Raised(summary) THEN summary
    ELSE LET response_parts ==
                 summary.value
                 \o ChartNotice(chart_data)
                 \o RecommendationLines(recommendations)
                 \o PerformanceTip(user_message)
         IN Return(IF response_parts = <<>> THEN HelpMessage ELSE response_parts)

generate_ai_response(user_message, data, chart_data, recommendations) ==
    LET summary == DataSummary(data) IN
    IF Raised(summary) THEN summary
    ELSE LET response_parts ==
                 summary.value
                 \o RecommendationLines(recommendations)
                 \o ChartNotice(chart_data)
                 \o PerformanceTip(user_message)
         IN Return(IF response_parts = <<>> THEN HelpMessage ELSE response_parts)

(***************************************************************************)
(* send_message: keyword dispatch, fetch, recommendations, chart, text.    *)
(***************************************************************************)
\* a dispatch that tests the generic ad keywords before the adset keywords
SelectTool_AdsBeforeAdsets(lower_message) ==
    IF AnyIn(lower_message, AccountKeywords) THEN ToolAccounts
    ELSE IF AnyIn(lower_message, CampaignKeywords) THEN ToolCampaigns
    ELSE IF AnyIn(lower_message, InsightKeywords) THEN ToolInsights
    ELSE IF AnyIn(lower_message, AdKeywords) THEN ToolAds
    ELSE IF AnyIn(lower_message, AdsetKeywords) THEN ToolAdsets
    ELSE "none"

\* a dispatch that tests the campaign keywords before the account keywords
SelectTool_CampaignsFirst(lower_message) ==
    IF AnyIn(lower_message, CampaignKeywords) THEN ToolCampaigns
    ELSE IF AnyIn(lower_message, AccountKeywords) THEN ToolAccounts
    ELSE IF AnyIn(lower_message, InsightKeywords) THEN ToolInsights
    ELSE IF AnyIn(lower_message, AdsetKeywords) THEN ToolAdsets
    ELSE IF AnyIn(lower_message, AdKeywords) THEN ToolAds
    ELSE "none"

\* a dispatch that lists the ads when no group matches
SelectTool_AdsByDefault(lower_message) ==
    IF AnyIn(lower_message, AccountKeywords) THEN ToolAccounts
    ELSE IF AnyIn(lower_message, CampaignKeywords) THEN ToolCampaigns
    ELSE IF AnyIn(lower_message, InsightKeywords) THEN ToolInsights
    ELSE IF AnyIn(lower_message, AdsetKeywords) THEN ToolAdsets
    ELSE ToolAds

\* the if/elif chain over the keyword groups: the tool of the first group
\* that matches, or "none"
SelectTool(lower_message) ==
    IF AnyIn(lower_message, AccountKeywords) THEN ToolAccounts
    ELSE IF AnyIn(lower_message, CampaignKeywords) THEN ToolCampaigns
    ELSE IF AnyIn(lower_message, InsightKeywords) THEN ToolInsights
    ELSE IF AnyIn(lower_message, AdsetKeywords) THEN ToolAdsets
    ELSE IF AnyIn(lower_message, AdKeywords) THEN ToolAds
    ELSE "none"

\* the chart of a branch: only the campaigns and insights branches ask for one
BranchChart(tool, lower_message, data) ==
    IF tool = ToolCampaigns /\ AnyIn(lower_message, ChartKeywords)
    THEN generate_chart_data("campaign_performance", data)
    ELSE IF tool = ToolInsights /\ AnyIn(lower_message, ChartKeywords)
    THEN generate_chart_data("spend_trend", data)
    ELSE Return(None)

\* except Exception as e: raise HTTPException(500, f"{prefix}: {str(e)}")
ServerError(prefix, e) == HTTPException(500, <<prefix, Str(e)>>)

\* the handler body; answer is what the selected tool's server returns.
\* Yields the response and the tools called.
send_message(message, current_user, answer) ==
    LET user_message == Get(message, "content", <<>>)
        lower_message == lower(user_message)
        tool == SelectTool(lower_message)
        fetched == IF tool = "none" THEN <<>> ELSE <<tool>>
        data == IF tool = "none" THEN EmptyDict ELSE call_mcp_tool(tool, answer)
        recommendations ==
            IF tool = ToolCampaigns THEN get_ai_recommendations(data) ELSE <<>>
        chart == BranchChart(tool, lower_message, data)
    IN  IF Raised(chart)
        THEN [resp |-> ErrorResponse(ServerError("Error processing message", chart.raised)),
              calls |-> fetched]
        ELSE LET ai_response ==
                     generate_ai_response(user_message, data, chart.value, recommendations)
             IN  IF Raised(ai_response)
                 THEN [resp |-> ErrorResponse(ServerError("Error processing message",
                                                           ai_response.raised)),
                       calls |-> fetched]
                 ELSE [resp |-> [status |-> 200,
                                 response |-> ai_response.value,
                                 data |-> data,
                                 chart_data |-> chart.value,
                                 recommendations |-> recommendations],
                       calls |-> fetched]

(***************************************************************************)
(* analyze_campaigns (POST /chat/analyze): the handler body.               *)
(***************************************************************************)

CountActive(campaigns) ==
    Cardinality({i \in 1..Len(campaigns) : Get(campaigns[i], "status", "") = "ACTIVE"})

analyze_campaigns(current_user, answer) ==
    LET campaign_data == call_mcp_tool(ToolCampaigns, answer)
        recommendations == get_ai_recommendations(campaign_data)
        chart_data == generate_chart_data("campaign_performance", campaign_data)
        campaigns == Get(campaign_data, "campaigns", <<>>)
        fetched == <<ToolCampaigns>>
    IN  IF Raised(chart_data)
        THEN [resp |-> ErrorResponse(ServerError("Error analyzing campaigns",
                                                 chart_data.raised)),
              calls |-> fetched]
        ELSE IF Len(campaigns) = 0
        THEN [resp |-> ErrorResponse(ServerError("Error analyzing campaigns",
                                                 Exception("ZeroDivisionError"))),
              calls |-> fetched]
        ELSE [resp |-> [status |-> 200,
                        analysis |-> [total_campaigns |-> Len(campaigns),
                                      active_campaigns |-> CountActive(campaigns),
                                      total_spend |-> SumOver(campaigns, "spend"),
                                      avg_ctr |-> Ratio(SumOver(campaigns, "ctr"),
                                                        Len(campaigns))],
                        recommendations |-> recommendations,
                        chart_data |-> chart_data.value],
              calls |-> fetched]

(***************************************************************************)
(* MetaIntegrationService: the Graph API client.  Every operation takes    *)
(* the outcome of its HTTP call (a response, a transport exception or a    *)
(* timeout) and yields its result and the HTTP calls it issued.            *)
(***************************************************************************)
GraphError == [error |-> [type |-> "OAuthException", code |-> 190]]
NotJson == [invalid |-> TRUE]

\* outcomes of a GET that lists records drawn from items
GraphResponses(items) ==
    {[outcome |-> "response", status_code |-> 200, body |-> [data |-> xs]] : xs \in items}
    \cup {[outcome |-> "response", status_code |-> 200, body |-> GraphError],
          [outcome |-> "response", status_code |-> 200, body |-> NotJson],
          [outcome |-> "response", status_code |-> 400, body |-> GraphError],
          [outcome |-> "response", status_code |-> 500, body |-> GraphError],
          [outcome |-> "exception"],
          [outcome |-> "timeout"]}

\* outcomes of a POST that changes a campaign
GraphWriteResponses ==
    {[outcome |-> "response", status_code |-> 200, body |-> [success |-> TRUE]],
     [outcome |-> "response", status_code |-> 200, body |-> GraphError],
     [outcome |-> "response", status_code |-> 400, body |-> GraphError],
     [outcome |-> "response", status_code |-> 500, body |-> GraphError],
     [outcome |-> "exception"],
     [outcome |-> "timeout"]}

GraphAccountPool ==
    { [id |-> "act_1", name |-> "Main", account_status |-> 1] }

GraphCampaignPool ==
    { [id |-> "c1", name |-> "Summer Sale Campaign", status |-> "ACTIVE",
       daily_budget |-> 10000, spend |-> 2450, impressions |-> 125000, clicks |-> 3200],
      [id |-> "c2", name |-> "Brand Awareness", status |-> "PAUSED",
       daily_budget |-> 5000, spend |-> 1890, impressions |-> 89000, clicks |-> 1200],
      [id |-> "c3", name |-> "Fresh", status |-> "ACTIVE"] }

GraphInsightPool ==
    { [date_start |-> "2024-01-01", spend |-> 100, ctr |-> 300, cpc |-> 67, reach |-> 4000],
      [date_start |-> "2024-01-02", spend |-> 120, ctr |-> 90, cpc |-> 210, reach |-> 20000] }

GraphAdsetPool == { [id |-> "s1", name |-> "Ad Set 1", status |-> "ACTIVE"] }
GraphAdPool == { [id |-> "a1", name |-> "Ad 1", status |-> "ACTIVE"] }

HttpCall(method, path, params) == [method |-> method, path |-> path, params |-> params]

\* await self.client.get / post: the response, or the exception httpx raises
Await(response) ==
    IF response.outcome = "response" THEN Return(response)
    ELSE IF response.outcome = "timeout" THEN Raise(Exception("TimeoutException"))
    ELSE Raise(Exception("ConnectError"))

\* response.json()
Json(response) ==
    IF "invalid" \in DOMAIN response.body THEN Raise(Exception("JSONDecodeError"))
    ELSE Return(response.body)

\* a read operation that lets the exceptions of the call and of the decoding through
ResponseData_NoExcept(response) ==
    LET got == Await(response) IN
    IF Raised(got) THEN got
    ELSE IF response.status_code = 200
    THEN LET data == Json(response) IN
         IF Raised(data) THEN data ELSE Return(Get(data.value, "data", <<>>))
    ELSE Return(<<>>)

\* the body shared by the read operations:
\*   try: response = await get(...); if 200: return response.json().get("data", [])
\*        return []
\*   except Exception: return []
ResponseData(response) ==
    LET got == Await(response) IN
    IF Raised(got) THEN Return(<<>>)
    ELSE IF response.status_code = 200
    THEN LET data == Json(response) IN
         IF Raised(data) THEN Return(<<>>) ELSE Return(Get(data.value, "data", <<>>))
    ELSE Return(<<>>)

get_ad_accounts(response) ==
    [result |-> ResponseData(response),
     calls |-> <<HttpCall("GET", "/me/adaccounts", EmptyDict)>>]

get_campaigns(account_id, response) ==
    [result |-> ResponseData(response),
     calls |-> <<HttpCall("GET", <<account_id, "campaigns">>, EmptyDict)>>]

\* date_range is None or a dict; a dict without "start" or "end" raises
\* KeyError before the call is issued, and the operation returns []
get_insights(object_id, date_range, response) ==
    IF Truthy(date_range)
    THEN IF {"start", "end"} \subseteq DOMAIN date_range
         THEN [result |-> ResponseData(response),
               calls |-> <<HttpCall("GET", <<object_id, "insights">>,
                                    [date_preset |-> "custom",
                                     time_range |-> [since |-> date_range.start,
                                                     until |-> date_range.end]])>>]
         ELSE [result |-> Return(<<>>), calls |-> <<>>]
    ELSE [result |-> ResponseData(response),
          calls |-> <<HttpCall("GET", <<object_id, "insights">>,
                               [date_preset |-> "last_30d"])>>]

get_ad_sets(campaign_id, response) ==
    [result |-> ResponseData(response),
     calls |-> <<HttpCall("GET", <<campaign_id, "adsets">>, EmptyDict)>>]

get_ads(adset_id, response) ==
    [result |-> ResponseData(response),
     calls |-> <<HttpCall("GET", <<adset_id, "ads">>, EmptyDict)>>]

get_realtime_insights(account_id, response) ==
    [result |-> ResponseData(response),
     calls |-> <<HttpCall("GET", <<account_id, "insights">>, [date_preset |-> "today"])>>]

\* validate_access_token: True for a 200 response whose decoded body has no
\* truthy "error"; False otherwise and on any exception
validate_access_token(response) ==
    LET got == Await(response) IN
    [result |-> IF Raised(got) THEN FALSE
                ELSE IF response.status_code # 200 THEN FALSE
                ELSE LET data == Json(response) IN
                     IF Raised(data) THEN FALSE
                     ELSE "error" \notin DOMAIN data.value,
     calls |-> <<HttpCall("GET", "/me", EmptyDict)>>]

\* get_user_info: the decoded body of a 200 response, None otherwise
get_user_info(response) ==
    LET got == Await(response) IN
    [result |-> IF Raised(got) THEN Return(None)
                ELSE IF response.status_code = 200
                THEN LET data == Json(response) IN
                     IF Raised(data) THEN Return(None) ELSE Return(data.value)
                ELSE Return(None),
     calls |-> <<HttpCall("GET", "/me", [fields |-> "id,name,email"])>>]

\* the body shared by the write operations:
\*   try: response = await post(...); return response.status_code == 200
\*   except Exception: return False
WriteSucceeded(response) ==
    LET got == Await(response) IN
    IF Raised(got) THEN FALSE ELSE response.status_code = 200

update_campaign_status(campaign_id, status, response) ==
    [result |-> WriteSucceeded(response),
     calls |-> <<HttpCall("POST", <<campaign_id>>, [status |-> status])>>]

update_campaign_budget(campaign_id, daily_budget, response) ==
    [result |-> WriteSucceeded(response),
     calls |-> <<HttpCall("POST", <<campaign_id>>, [daily_budget |-> daily_budget])>>]

\* an execution that raises the budget before it pauses
execute_strategy_BudgetFirst(strategy, statusResponse, budgetResponse) ==
    IF ~({"campaign_id", "actions"} \subseteq DOMAIN strategy)
    THEN [result |-> FALSE, calls |-> <<>>]
    ELSE LET campaign_id == strategy.campaign_id
             actions == strategy.actions
             pause == IF Get(actions, "pause_low_performing", FALSE)
                      THEN update_campaign_status(campaign_id, "PAUSED", statusResponse).calls
                      ELSE <<>>
             current_budget == Get(Get(strategy, "performance_metrics", EmptyDict),
                                   "spend", 0)
             raise == IF Get(actions, "increase_budget", FALSE)
                      THEN update_campaign_budget(campaign_id, current_budget * 120,
                                                  budgetResponse).calls
                      ELSE <<>>
         IN  [result |-> TRUE, calls |-> raise \o pause]

\* execute_strategy: strategy["campaign_id"] and strategy["actions"] raise
\* KeyError when absent (caught: False); the results of the two updates are
\* not looked at
execute_strategy(strategy, statusResponse, budgetResponse) ==
    IF ~({"campaign_id", "actions"} \subseteq DOMAIN strategy)
    THEN [result |-> FALSE, calls |-> <<>>]
    ELSE LET campaign_id == strategy.campaign_id
             actions == strategy.actions
             pause == IF Get(actions, "pause_low_performing", FALSE)
                      THEN update_campaign_status(campaign_id, "PAUSED", statusResponse).calls
                      ELSE <<>>
             current_budget == Get(Get(strategy, "performance_metrics", EmptyDict),
                                   "spend", 0)
             new_budget == current_budget * 120
             raise == IF Get(actions, "increase_budget", FALSE)
                      THEN update_campaign_budget(campaign_id, new_budget,
                                                  budgetResponse).calls
                      ELSE <<>>
         IN  [result |-> TRUE, calls |-> pause \o raise]

\* a summary that accumulates over every campaign, whatever its status
get_account_performance_summary_AllCampaigns(account_id, response) ==
    LET fetched == get_campaigns(account_id, response)
        campaigns == fetched.result.value
        total_spend == SumOver(campaigns, "spend")
        total_impressions == SumOver(campaigns, "impressions")
        total_clicks == SumOver(campaigns, "clicks")
    IN  [result |-> [account_id |-> account_id,
                     total_campaigns |-> Len(campaigns),
                     active_campaigns |-> Len(campaigns),
                     total_spend |-> total_spend,
                     total_impressions |-> total_impressions,
                     total_clicks |-> total_clicks,
                     average_ctr |-> IF total_impressions > 0
                                     THEN Ratio(total_clicks * 100, total_impressions)
                                     ELSE Ratio(0, 1),
                     average_cpc |-> IF total_clicks > 0
                                     THEN Ratio(total_spend, total_clicks)
                                     ELSE Ratio(0, 1)],
         calls |-> fetched.calls]

\* get_account_performance_summary: the guarded averages
get_account_performance_summary(account_id, response) ==
    LET fetched == get_campaigns(account_id, response)
        campaigns == fetched.result.value
        active == SelectSeq(campaigns, LAMBDA c : Get(c, "status", "") = "ACTIVE")
        total_spend == SumOver(active, "spend")
        total_impressions == SumOver(active, "impressions")
        total_clicks == SumOver(active, "clicks")
    IN  [result |-> [account_id |-> account_id,
                     total_campaigns |-> Len(campaigns),
                     active_campaigns |-> Len(active),
                     total_spend |-> total_spend,
                     total_impressions |-> total_impressions,
                     total_clicks |-> total_clicks,
                     average_ctr |-> IF total_impressions > 0
                                     THEN Ratio(total_clicks * 100, total_impressions)
                                     ELSE Ratio(0, 1),
                     average_cpc |-> IF total_clicks > 0
                                     THEN Ratio(total_spend, total_clicks)
                                     ELSE Ratio(0, 1)],
         calls |-> fetched.calls]

(***************************************************************************)
(* Optimization strategies.  Rates are in hundredths (ctr 1.0 is 100),     *)
(* money in minor units (cpc 1.5 is 150).                                  *)
(***************************************************************************)
low_ctr_threshold == 100       \* 1.0
high_cpc_threshold == 200      \* 2.0
low_reach_threshold == 10000

\* insight records around the thresholds of the strategy rules
StrategyInsightPool ==
    { [spend |-> 90, ctr |-> 100, cpc |-> 200, reach |-> 10000],
      [spend |-> 80, ctr |-> 99, cpc |-> 201, reach |-> 9999],
      [spend |-> 70, ctr |-> 201, cpc |-> 149],
      [spend |-> 60, ctr |-> 200, cpc |-> 149, reach |-> 10001],
      [spend |-> 50, ctr |-> 201, cpc |-> 150, reach |-> 0],
      [date_start |-> "2024-01-01"] }

\* a strategy whose budget flag looks at the cost per click alone
analyze_campaign_performance_CpcOnly(campaign, insight) ==
    LET ctr == Get(insight, "ctr", 0)
        cpc == Get(insight, "cpc", 0)
    IN  IF ~({"id", "name"} \subseteq DOMAIN campaign) THEN Raise(Exception("KeyError"))
        ELSE Return(
          [campaign_id |-> campaign.id,
           campaign_name |-> campaign.name,
           type |-> "performance_optimization",
           status |-> "active",
           rules |-> [min_ctr |-> low_ctr_threshold,
                      max_cpc |-> high_cpc_threshold,
                      target_cpm |-> 1500,
                      budget_threshold_tenths |-> Get(campaign, "daily_budget", 0) * 8],
           actions |-> [pause_low_performing |-> ctr < low_ctr_threshold,
                        increase_budget |-> cpc < 150,
                        adjust_bidding |-> cpc > high_cpc_threshold,
                        expand_audience |-> Get(insight, "reach", 0) < low_reach_threshold],
           performance_metrics |-> [spend |-> Get(insight, "spend", 0),
                                    impressions |-> Get(insight, "impressions", 0),
                                    clicks |-> Get(insight, "clicks", 0),
                                    ctr |-> ctr,
                                    cpc |-> cpc,
                                    cpm |-> Get(insight, "cpm", 0)]])

\* a strategy that pauses below a click-through rate of 3.0
analyze_campaign_performance_PauseBelowThree(campaign, insight) ==
    LET built == analyze_campaign_performance_CpcOnly(campaign, insight)
        ctr == Get(insight, "ctr", 0)
        cpc == Get(insight, "cpc", 0)
    IN  IF Raised(built) THEN built
        ELSE Return([built.value EXCEPT
                        !.actions.increase_budget = cpc < 150 /\ ctr > 200,
                        !.actions.pause_low_performing = ctr < 300])

\* _analyze_campaign_performance: campaign["id"] and campaign["name"] raise
\* KeyError when absent; budget_threshold (daily_budget * 0.8) is kept in
\* tenths of a minor unit
analyze_campaign_performance(campaign, insight) ==
    LET ctr == Get(insight, "ctr", 0)
        cpc == Get(insight, "cpc", 0)
    IN  IF ~({"id", "name"} \subseteq DOMAIN campaign) THEN Raise(Exception("KeyError"))
        ELSE Return(
          [campaign_id |-> campaign.id,
           campaign_name |-> campaign.name,
           type |-> "performance_optimization",
           status |-> "active",
           rules |-> [min_ctr |-> low_ctr_threshold,
                      max_cpc |-> high_cpc_threshold,
                      target_cpm |-> 1500,
                      budget_threshold_tenths |-> Get(campaign, "daily_budget", 0) * 8],
           actions |-> [pause_low_performing |-> ctr < low_ctr_threshold,
                        increase_budget |-> cpc < 150 /\ ctr > 200,
                        adjust_bidding |-> cpc > high_cpc_threshold,
                        expand_audience |-> Get(insight, "reach", 0) < low_reach_threshold],
           performance_metrics |-> [spend |-> Get(insight, "spend", 0),
                                    impressions |-> Get(insight, "impressions", 0),
                                    clicks |-> Get(insight, "clicks", 0),
                                    ctr |-> ctr,
                                    cpc |-> cpc,
                                    cpm |-> Get(insight, "cpm", 0)]])

\* the 7-day window of the strategy generator
LastSevenDays == [start |-> "today-7", end |-> "today"]

\* the loop of generate_optimization_strategies from campaign i on:
\* responses[i] is the outcome of the insight call for campaign i.  Yields
\* the strategies appended, the calls issued, and whether an exception ended
\* the loop.
RECURSIVE StrategyLoop(_, _, _)
StrategyLoop(campaigns, responses, i) ==
    IF i > Len(campaigns) THEN [strategies |-> <<>>, calls |-> <<>>, raised |-> FALSE]
    ELSE LET campaign == campaigns[i]
             rest == StrategyLoop(campaigns, responses, i + 1)
         IN  IF Get(campaign, "status", "") # "ACTIVE" THEN rest
             ELSE IF "id" \notin DOMAIN campaign
             THEN [strategies |-> <<>>, calls |-> <<>>, raised |-> TRUE]
             ELSE LET fetched == get_insights(campaign.id, LastSevenDays, responses[i])
                      insights == fetched.result.value
                  IN  IF insights = <<>>
                      THEN [rest EXCEPT !.calls = fetched.calls \o @]
                      ELSE LET strategy == analyze_campaign_performance(campaign, insights[1])
                           IN  IF Raised(strategy)
                               THEN [strategies |-> <<>>, calls |-> fetched.calls,
                                     raised |-> TRUE]
                               ELSE [rest EXCEPT
                                        !.calls = fetched.calls \o @,
                                        !.strategies = <<strategy.value>> \o @]

\* a generator that returns the strategies newest first
generate_optimization_strategies_Reversed(account_id, campaignsResponse, insightResponses) ==
    LET fetched == get_campaigns(account_id, campaignsResponse)
        loop == StrategyLoop(fetched.result.value, insightResponses, 1)
        n == Len(loop.strategies)
    IN  [result |-> Return(IF loop.raised THEN <<>>
                           ELSE [k \in 1..n |-> loop.strategies[n + 1 - k]]),
         calls |-> fetched.calls \o loop.calls]

\* a generator that keeps what it built before the exception
generate_optimization_strategies_Partial(account_id, campaignsResponse, insightResponses) ==
    LET fetched == get_campaigns(account_id, campaignsResponse)
        loop == StrategyLoop(fetched.result.value, insightResponses, 1)
    IN  [result |-> Return(loop.strategies), calls |-> fetched.calls \o loop.calls]

\* generate_optimization_strategies: any exception of the loop yields []
generate_optimization_strategies(account_id, campaignsResponse, insightResponses) ==
    LET fetched == get_campaigns(account_id, campaignsResponse)
        loop == StrategyLoop(fetched.result.value, insightResponses, 1)
    IN  [result |-> Return(IF loop.raised THEN <<>> ELSE loop.strategies),
         calls |-> fetched.calls \o loop.calls]

(***************************************************************************)
(* The /auth router: me, refresh, logout.                                  *)
(***************************************************************************)
\* jwt.encode of {"sub": ..., "exp": now + access_token_expire_minutes}
create_access_token(data) ==
    [form |-> "jwt", sig |-> "good", expired |-> FALSE, sub |-> data.sub]

\* what supabase.auth.sign_in_with_password can do: raise, answer without a
\* user, or answer with a user whose email is or is not confirmed
SignInOutcomes ==
    {[outcome |-> "raises"], [outcome |-> "no user"]}
    \cup {[outcome |-> "user", id |-> "u1", email_confirmed |-> c] : c \in BOOLEAN}

\* what supabase.auth.admin.list_users can do: raise, or list the users held
ListUsersOutcomes ==
    {[outcome |-> "raises"]}
    \cup {[outcome |-> "users", emails |-> es] : es \in SUBSET {"a@x.io", "b@x.io"}}

\* what supabase.auth.sign_up can do
SignUpOutcomes ==
    {[outcome |-> "raises"], [outcome |-> "no user"], [outcome |-> "user", id |-> "u2"]}

authenticate_user(email, password, signIn) ==
    IF signIn.outcome = "user"
    THEN [id |-> signIn.id, email |-> email, is_active |-> signIn.email_confirmed]
    ELSE None

create_user(user_data, signUp) ==
    IF signUp.outcome = "user"
    THEN [id |-> signUp.id, email |-> user_data.email, is_active |-> FALSE]
    ELSE None

get_user_by_email(email, listUsers) ==
    IF listUsers.outcome = "users" /\ email \in listUsers.emails
    THEN [id |-> "u1", email |-> email, is_active |-> TRUE]
    ELSE None

\* register: the HTTPException(400) raised for an existing user is raised
\* inside the try whose bare except passes, so the handler goes on to
\* create_user whatever the lookup returned
register(user_data, listUsers, signUp) ==
    LET existing_user == get_user_by_email(user_data.email, listUsers)
        user == create_user(user_data, signUp)
    IN  [resp |-> IF user = None
                  THEN ErrorResponse(HTTPException(400, "Failed to create user"))
                  ELSE [status |-> 200, user |-> user],
         calls |-> <<"list_users", "sign_up">>,
         minted |-> {}]

login(user_credentials, signIn) ==
    LET user == authenticate_user(user_credentials.email, user_credentials.password, signIn)
    IN  IF user = None
        THEN [resp |-> ErrorResponse(HTTPException(401, "Incorrect email or password")),
              calls |-> <<"sign_in_with_password">>, minted |-> {}]
        ELSE IF ~user.is_active
        THEN [resp |-> ErrorResponse(HTTPException(400, "User account is not active")),
              calls |-> <<"sign_in_with_password">>, minted |-> {}]
        ELSE LET access_token == create_access_token([sub |-> user.id]) IN
             [resp |-> [status |-> 200, access_token |-> access_token,
                        token_type |-> "bearer", user |-> user],
              calls |-> <<"sign_in_with_password">>,
              minted |-> {access_token}]

get_current_user_info(current_user) ==
    [resp |-> [status |-> 200, user |-> current_user], calls |-> <<>>, minted |-> {}]

refresh_token(current_user) ==
    LET access_token == create_access_token([sub |-> current_user.id]) IN
    [resp |-> [status |-> 200, access_token |-> access_token,
               token_type |-> "bearer", user |-> current_user],
     calls |-> <<>>,
     minted |-> {access_token}]

logout(current_user) ==
    [resp |-> [status |-> 200, message |-> "Successfully logged out"],
     calls |-> <<>>, minted |-> {}]

get_suggestions(current_user) ==
    [resp |-> [status |-> 200, suggestions |-> 8], calls |-> <<>>, minted |-> {}]

(***************************************************************************)
(* The /meta router.                                                       *)
(***************************************************************************)
\* the methods class AuthService defines
AuthServiceMethods ==
    {"verify_password", "get_password_hash", "create_access_token", "verify_token",
     "authenticate_user", "create_user", "get_user_by_id", "get_user_by_email"}

\* auth_service.<name>: AttributeError for a name the class does not define
AuthServiceAttr(name) ==
    IF name \in AuthServiceMethods THEN Return(name) ELSE Raise(Exception("AttributeError"))

\* the dependency of the /meta router:
\*   try: user = await auth_service.get_user_by_token(token)
\*        if not user: raise 401
\*        return user
\*   except Exception: raise 401
meta_get_current_user(token, idp) ==
    LET method == AuthServiceAttr("get_user_by_token")
        token_data == verify_token(token)
        user == IF token_data = None THEN None
                ELSE get_user_by_id(token_data.user_id, idp)
    IN  IF Raised(method) \/ user = None
        THEN Raise(HTTPException(401, "Invalid authentication credentials"))
        ELSE Return(user)

\* the try/except of a /meta handler around a body that yields a response
\* or raises
Guarded(prefix, outcome) ==
    IF Raised(outcome) THEN ErrorResponse(ServerError(prefix, outcome.raised))
    ELSE outcome.value

\* a handler that returns {key: <the list the client returned>}
ListRoute(prefix, key, op) ==
    [resp |-> Guarded(prefix,
                      IF Raised(op.result) THEN op.result
                      ELSE Return(("status" :> 200) @@ (key :> op.result.value))),
     calls |-> op.calls]

route_get_ad_accounts(inputs, response) ==
    ListRoute("Failed to get ad accounts", "accounts", get_ad_accounts(response))

route_get_campaigns(inputs, response) ==
    ListRoute("Failed to get campaigns", "campaigns",
              get_campaigns(inputs.account_id, response))

route_get_insights(inputs, response) ==
    LET date_range == IF inputs.start_date # "" /\ inputs.end_date # ""
                      THEN [start |-> inputs.start_date, end |-> inputs.end_date]
                      ELSE None
    IN  ListRoute("Failed to get insights", "insights",
                  get_insights(inputs.object_id, date_range, response))

route_get_ad_sets(inputs, response) ==
    ListRoute("Failed to get ad sets", "ad_sets", get_ad_sets(inputs.campaign_id, response))

route_get_ads(inputs, response) ==
    ListRoute("Failed to get ads", "ads", get_ads(inputs.adset_id, response))

route_get_realtime_insights(inputs, response) ==
    ListRoute("Failed to get real-time insights", "insights",
              get_realtime_insights(inputs.account_id, response))

route_validate_meta_token(inputs, response) ==
    LET op == validate_access_token(response) IN
    [resp |-> Guarded("Failed to validate token",
                      Return([status |-> 200, valid |-> op.result])),
     calls |-> op.calls]

route_get_meta_user_info(inputs, response) ==
    LET op == get_user_info(response)
        user_info == op.result.value
    IN  [resp |-> Guarded("Failed to get user info",
                          IF ~Truthy(user_info)
                          THEN Raise(HTTPException(404, "User information not found"))
                          ELSE Return([status |-> 200, user_info |-> user_info])),
         calls |-> op.calls]

\* a status handler that answers 200 whatever the client returned
route_update_campaign_status_Unchecked(inputs, response) ==
    LET new_status == Get(inputs.status_update, "status", "")
        op == update_campaign_status(inputs.campaign_id, new_status, response)
    IN  [resp |-> [status |-> 200, success |-> TRUE,
                   message |-> <<"Campaign status updated to", new_status>>],
         calls |-> op.calls]

\* status_update.get("status") is None or "" for a missing or empty value
route_update_campaign_status(inputs, response) ==
    LET new_status == Get(inputs.status_update, "status", "") IN
    IF new_status = ""
    THEN [resp |-> Guarded("Failed to update campaign status",
                           Raise(HTTPException(400, "Status is required"))),
          calls |-> <<>>]
    ELSE LET op == update_campaign_status(inputs.campaign_id, new_status, response) IN
         [resp |-> Guarded("Failed to update campaign status",
                           IF ~op.result
                           THEN Raise(HTTPException(500, "Failed to update campaign status"))
                           ELSE Return([status |-> 200, success |-> TRUE,
                                        message |-> <<"Campaign status updated to",
                                                      new_status>>])),
          calls |-> op.calls]

\* budget_update.get("daily_budget") is None or 0 for a missing or zero value
route_update_campaign_budget(inputs, response) ==
    LET new_budget == Get(inputs.budget_update, "daily_budget", 0) IN
    IF new_budget = 0
    THEN [resp |-> Guarded("Failed to update campaign budget",
                           Raise(HTTPException(400, "Daily budget is required"))),
          calls |-> <<>>]
    ELSE LET op == update_campaign_budget(inputs.campaign_id, new_budget, response) IN
         [resp |-> Guarded("Failed to update campaign budget",
                           IF ~op.result
                           THEN Raise(HTTPException(500, "Failed to update campaign budget"))
                           ELSE Return([status |-> 200, success |-> TRUE,
                                        message |-> <<"Campaign budget updated to",
                                                      new_budget>>])),
          calls |-> op.calls]

\* response is the pair of outcomes of the status POST and the budget POST
route_execute_strategy(inputs, response) ==
    LET op == execute_strategy(inputs.strategy, response[1], response[2]) IN
    [resp |-> Guarded("Failed to execute strategy",
                      IF ~op.result
                      THEN Raise(HTTPException(500, "Failed to execute strategy"))
                      ELSE Return([status |-> 200, success |-> TRUE,
                                   message |-> "Strategy executed successfully"])),
     calls |-> op.calls]

route_get_account_performance(inputs, response) ==
    LET op == get_account_performance_summary(inputs.account_id, response) IN
    [resp |-> [status |-> 200, performance |-> op.result], calls |-> op.calls]

\* GET /meta/strategies/{account_id}; response holds the outcome of the
\* campaign call and those of the insight calls
route_generate_strategies(inputs, response) ==
    ListRoute("Failed to generate strategies", "strategies",
              generate_optimization_strategies(inputs.account_id, response.campaigns,
                                               response.insights))

(***************************************************************************)
(* State machine.                                                          *)
(***************************************************************************)
\* no client is followed across requests
NoSession == [original |-> None, refreshed |-> None, loggedOut |-> FALSE]

Init ==
    /\ req = [route |-> "none"]
    /\ resp = [status |-> 0]
    /\ calls = <<>>
    /\ minted = {}
    /\ ran = FALSE
    /\ session = NoSession

\* no request is being served
Idle == req.route = "none"

\* a request refused by the router's dependency: the handler is not entered
Refuse(request, response) ==
    /\ req' = request
    /\ resp' = response
    /\ calls' = <<>>
    /\ minted' = {}
    /\ ran' = FALSE
    /\ UNCHANGED session

\* a request whose handler ran
Serve(request, response, issued, tokens) ==
    /\ req' = request
    /\ resp' = response
    /\ calls' = issued
    /\ minted' = tokens
    /\ ran' = TRUE
    /\ UNCHANGED session

\* the handler of an /auth or /chat route, entered with the user its
\* dependency produced
Handle(route, current_user, inputs, outcome) ==
    CASE route = "/chat/message" ->
             send_message(inputs, current_user, outcome) @@ [minted |-> {}]
      [] route = "/chat/analyze" ->
             analyze_campaigns(current_user, outcome) @@ [minted |-> {}]
      [] route = "/chat/suggestions" -> get_suggestions(current_user)
      [] route = "/auth/me" -> get_current_user_info(current_user)
      [] route = "/auth/refresh" -> refresh_token(current_user)
      [] route = "/auth/logout" -> logout(current_user)

\* the handler of a /meta route
MetaHandle(route, inputs, outcome) ==
    CASE route = "/meta/user-info" -> route_get_meta_user_info(inputs, outcome)
      [] route = "/meta/validate-token" -> route_validate_meta_token(inputs, outcome)
      [] route = "/meta/ad-accounts" -> route_get_ad_accounts(inputs, outcome)
      [] route = "/meta/campaigns" -> route_get_campaigns(inputs, outcome)
      [] route = "/meta/insights" -> route_get_insights(inputs, outcome)
      [] route = "/meta/ad-sets" -> route_get_ad_sets(inputs, outcome)
      [] route = "/meta/ads" -> route_get_ads(inputs, outcome)
      [] route = "/meta/realtime" -> route_get_realtime_insights(inputs, outcome)
      [] route = "/meta/campaigns/status" -> route_update_campaign_status(inputs, outcome)
      [] route = "/meta/campaigns/budget" -> route_update_campaign_budget(inputs, outcome)
      [] route = "/meta/strategies/execute" -> route_execute_strategy(inputs, outcome)
      [] route = "/meta/strategies" -> route_generate_strategies(inputs, outcome)
      [] route = "/meta/performance" -> route_get_account_performance(inputs, outcome)

\* A request to an /auth or /chat endpoint: FastAPI resolves
\* Depends(get_current_user) and enters the handler only with its result.
\* outcomes are the possible outcomes of the handler's outbound call.
Endpoint(route, inputs, outcomes) ==
    \E token \in TokenPool, idp \in IdpStates :
        LET current_user == get_current_user(token, idp)
            request == [route |-> route, entry |-> "http", token |-> token,
                        idp |-> idp, inputs |-> inputs]
        IN  IF Raised(current_user)
            THEN Refuse(request, ErrorResponse(current_user.raised))
            ELSE \E outcome \in outcomes :
                    LET out == Handle(route, current_user.value, inputs, outcome) IN
                    Serve(request @@ [outcome |-> outcome],
                          out.resp, out.calls, out.minted)

\* A /meta endpoint, entered over HTTP through Depends(get_current_user) of
\* the /meta router, or as the handler coroutine called with its arguments
\* bound (entry "call"), which is how the handler runs once its dependency
\* has produced a user.
MetaEndpoint(route, inputs, outcomes) ==
    \/ \E token \in TokenPool, idp \in IdpStates :
        LET current_user == meta_get_current_user(token, idp)
            request == [route |-> route, entry |-> "http", token |-> token,
                        idp |-> idp, inputs |-> inputs]
        IN  IF Raised(current_user)
            THEN Refuse(request, ErrorResponse(current_user.raised))
            ELSE \E outcome \in outcomes :
                    LET out == MetaHandle(route, inputs, outcome) IN
                    Serve(request @@ [outcome |-> outcome], out.resp, out.calls, {})
    \/ \E outcome \in outcomes :
        LET out == MetaHandle(route, inputs, outcome) IN
        Serve([route |-> route, entry |-> "call", inputs |-> inputs,
               outcome |-> outcome],
              out.resp, out.calls, {})

\* a handler without an outbound call has one outcome
NoOutcome == {EmptyDict}

\* POST /chat/message
ChatSendMessage ==
    /\ Idle
    /\ \E content \in Messages :
           Endpoint("/chat/message", [content |-> content],
                    ToolAnswers(SelectTool(lower(content))))

\* GET /chat/suggestions
ChatSuggestions ==
    /\ Idle
    /\ Endpoint("/chat/suggestions", EmptyDict, NoOutcome)

\* POST /chat/analyze
ChatAnalyze ==
    /\ Idle
    /\ Endpoint("/chat/analyze", EmptyDict, ToolAnswers(ToolCampaigns))

\* GET /auth/me
AuthMe ==
    /\ Idle
    /\ Endpoint("/auth/me", EmptyDict, NoOutcome)

\* POST /auth/refresh
AuthRefresh ==
    /\ Idle
    /\ Endpoint("/auth/refresh", EmptyDict, NoOutcome)

\* POST /auth/logout
AuthLogout ==
    /\ Idle
    /\ Endpoint("/auth/logout", EmptyDict, NoOutcome)

\* email values of a request body; EmailStr accepts the first two
Emails == {"a@x.io", "b@x.io", "not-an-email"}
EmailStr(email) == email \in {"a@x.io", "b@x.io"}

\* a request body that does not validate is answered 422 by the framework
\* and the handler is not entered
Unprocessable == [status |-> 422, detail |-> "value is not a valid email address"]

\* POST /auth/login
AuthLogin ==
    /\ Idle
    /\ \E email \in Emails :
           LET user_credentials == [email |-> email, password |-> "pw"]
               request == [route |-> "/auth/login", entry |-> "http",
                           inputs |-> user_credentials]
           IN  IF ~EmailStr(email) THEN Refuse(request, Unprocessable)
               ELSE \E signIn \in SignInOutcomes :
                       LET out == login(user_credentials, signIn) IN
                       Serve(request @@ [outcome |-> signIn],
                             out.resp, out.calls, out.minted)

\* POST /auth/register
AuthRegister ==
    /\ Idle
    /\ \E email \in Emails :
           LET user_data == [email |-> email, password |-> "pw", role |-> "user"]
               request == [route |-> "/auth/register", entry |-> "http",
                           inputs |-> user_data]
           IN  IF ~EmailStr(email) THEN Refuse(request, Unprocessable)
               ELSE \E listUsers \in ListUsersOutcomes, signUp \in SignUpOutcomes :
                       LET out == register(user_data, listUsers, signUp) IN
                       Serve(request @@ [outcome |-> [list_users |-> listUsers,
                                                      sign_up |-> signUp]],
                             out.resp, out.calls, out.minted)

Dates == {"", "2024-01-01"}
StatusUpdates == {EmptyDict, [status |-> ""], [status |-> "PAUSED"], [status |-> "ACTIVE"]}
BudgetUpdates == {EmptyDict, [daily_budget |-> 0], [daily_budget |-> 5000]}

StrategyPool ==
    {EmptyDict, [campaign_id |-> "c1"]}
    \cup {[campaign_id |-> "c1",
           actions |-> [pause_low_performing |-> p, increase_budget |-> b],
           performance_metrics |-> [spend |-> 2450]] : p \in BOOLEAN, b \in BOOLEAN}

\* GET /meta/user-info
MetaUserInfo ==
    /\ Idle
    /\ MetaEndpoint("/meta/user-info", EmptyDict,
                    GraphResponses({}) \cup
                    {[outcome |-> "response", status_code |-> 200,
                      body |-> [id |-> "42", name |-> "N"]],
                     [outcome |-> "response", status_code |-> 200, body |-> EmptyDict]})

\* GET /meta/validate-token
MetaValidateToken ==
    /\ Idle
    /\ MetaEndpoint("/meta/validate-token", EmptyDict,
                    GraphResponses({}) \cup
                    {[outcome |-> "response", status_code |-> 200,
                      body |-> [id |-> "42", name |-> "N"]]})

\* GET /meta/ad-accounts
MetaAdAccounts ==
    /\ Idle
    /\ MetaEndpoint("/meta/ad-accounts", EmptyDict,
                    GraphResponses(SeqsUpTo(GraphAccountPool, 1)))

\* GET /meta/campaigns/{account_id}
MetaCampaigns ==
    /\ Idle
    /\ MetaEndpoint("/meta/campaigns", [account_id |-> "act_1"],
                    GraphResponses(SeqsUpTo(GraphCampaignPool, MaxCampaigns)))

\* GET /meta/insights/{object_id}
MetaInsights ==
    /\ Idle
    /\ \E start_date \in Dates, end_date \in Dates :
           MetaEndpoint("/meta/insights",
                        [object_id |-> "c1", start_date |-> start_date,
                         end_date |-> end_date],
                        GraphResponses(SeqsUpTo(GraphInsightPool, MaxInsights)))

\* GET /meta/ad-sets/{campaign_id}
MetaAdSets ==
    /\ Idle
    /\ MetaEndpoint("/meta/ad-sets", [campaign_id |-> "c1"],
                    GraphResponses(SeqsUpTo(GraphAdsetPool, 1)))

\* GET /meta/ads/{adset_id}
MetaAds ==
    /\ Idle
    /\ MetaEndpoint("/meta/ads", [adset_id |-> "s1"],
                    GraphResponses(SeqsUpTo(GraphAdPool, 1)))

\* GET /meta/realtime/{account_id}
MetaRealtime ==
    /\ Idle
    /\ MetaEndpoint("/meta/realtime", [account_id |-> "act_1"],
                    GraphResponses(SeqsUpTo(GraphInsightPool, 1)))

\* POST /meta/campaigns/{campaign_id}/status
MetaUpdateStatus ==
    /\ Idle
    /\ \E status_update \in StatusUpdates :
           MetaEndpoint("/meta/campaigns/status",
                        [campaign_id |-> "c1", status_update |-> status_update],
                        GraphWriteResponses)

\* POST /meta/campaigns/{campaign_id}/budget
MetaUpdateBudget ==
    /\ Idle
    /\ \E budget_update \in BudgetUpdates :
           MetaEndpoint("/meta/campaigns/budget",
                        [campaign_id |-> "c1", budget_update |-> budget_update],
                        GraphWriteResponses)

\* POST /meta/strategies/execute
MetaExecuteStrategy ==
    /\ Idle
    /\ \E strategy \in StrategyPool :
           MetaEndpoint("/meta/strategies/execute", [strategy |-> strategy],
                        GraphWriteResponses \X GraphWriteResponses)

\* the campaign records a summary may be handed: those of the pool and an
\* ACTIVE record with impressions and no click
PerformanceCampaignPool ==
    GraphCampaignPool
    \cup {[id |-> "c5", name |-> "No Clicks", status |-> "ACTIVE",
           daily_budget |-> 2000, spend |-> 500, impressions |-> 1000, clicks |-> 0]}

\* GET /meta/performance/{account_id}
MetaPerformance ==
    /\ Idle
    /\ MetaEndpoint("/meta/performance", [account_id |-> "act_1"],
                    GraphResponses(SeqsUpTo(PerformanceCampaignPool, MaxCampaigns)))

\* the campaign records the strategy generator may be handed: those of the
\* pool, an ACTIVE record that lacks its name and one that lacks its id
StrategyCampaignPool ==
    GraphCampaignPool
    \cup {[id |-> "c4", status |-> "ACTIVE", daily_budget |-> 3000],
          [name |-> "No Id", status |-> "ACTIVE", daily_budget |-> 3000]}

\* outcomes of the 7-day insight call of one campaign
StrategyInsightResponses ==
    {[outcome |-> "response", status_code |-> 200, body |-> [data |-> <<r>>]] :
        r \in StrategyInsightPool}
    \cup {[outcome |-> "response", status_code |-> 200,
           body |-> [data |-> <<[spend |-> 80, ctr |-> 99, cpc |-> 201, reach |-> 9999],
                                [spend |-> 100, ctr |-> 300, cpc |-> 67, reach |-> 4000]>>]],
          [outcome |-> "response", status_code |-> 200, body |-> [data |-> <<>>]],
          [outcome |-> "response", status_code |-> 500, body |-> GraphError],
          [outcome |-> "timeout"]}

\* no insight call is issued for a campaign that is not ACTIVE, nor for
\* one whose id cannot be read
NotCalled == [outcome |-> "not called"]

\* the outcomes of the insight calls for a campaign list: one per ACTIVE
\* campaign with an id, none for the others
RECURSIVE InsightOutcomesFor(_)
InsightOutcomesFor(campaigns) ==
    IF campaigns = <<>> THEN {<<>>}
    ELSE LET mine == IF /\ Get(Head(campaigns), "status", "") = "ACTIVE"
                        /\ "id" \in DOMAIN Head(campaigns)
                     THEN StrategyInsightResponses ELSE {NotCalled}
         IN  {<<r>> \o rest : r \in mine, rest \in InsightOutcomesFor(Tail(campaigns))}

\* the outcomes of the calls of one strategy generation whose campaign call
\* ends as campaignsResponse: that outcome, and those of the insight calls
\* for the campaigns it returned
StrategyOutcomes(campaignsResponse) ==
    { [campaigns |-> campaignsResponse, insights |-> rs] :
        rs \in InsightOutcomesFor(ResponseData(campaignsResponse).value) }

\* GET /meta/strategies/{account_id}
MetaStrategies ==
    /\ Idle
    /\ \E campaignsResponse \in GraphResponses(SeqsUpTo(StrategyCampaignPool, MaxCampaigns)) :
           MetaEndpoint("/meta/strategies", [account_id |-> "act_1"],
                        StrategyOutcomes(campaignsResponse))

\* the data dicts a chart is built from
ChartInputs ==
    {[campaigns |-> xs] : xs \in SeqsUpTo(CampaignPool, MaxCampaigns)}
    \cup {[insights |-> xs] : xs \in SeqsUpTo(InsightPool \cup {[spend |-> 100]}, MaxInsights)}
    \cup {EmptyDict, [error |-> "tool failed"]}

\* meta_ads_integration.generate_chart_data(data_type, data), called as the
\* chat handler calls it: the response holds what the call returned or raised
CallGenerateChartData ==
    /\ Idle
    /\ \E data_type \in {"spend_trend", "campaign_performance", "pie"}, data \in ChartInputs :
           Serve([route |-> "generate_chart_data", entry |-> "call",
                  inputs |-> [data_type |-> data_type, data |-> data]],
                 [status |-> 0] @@ generate_chart_data(data_type, data), <<>>, {})

\* the date_range arguments of a direct call of get_insights
DateRanges ==
    {None,
     [start |-> "2024-01-01"],
     [end |-> "2024-01-31"],
     [start |-> "2024-01-01", end |-> "2024-01-31"]}

\* meta_integration.get_insights(object_id, access_token, date_range), called
\* as the strategy generator calls it: the response holds what it returned
CallGetInsights ==
    /\ Idle
    /\ \E date_range \in DateRanges,
          outcome \in GraphResponses(SeqsUpTo(GraphInsightPool, MaxInsights)) :
           LET op == get_insights("c1", date_range, outcome) IN
           Serve([route |-> "get_insights", entry |-> "call",
                  inputs |-> [object_id |-> "c1", date_range |-> date_range],
                  outcome |-> outcome],
                 [status |-> 0] @@ op.result, op.calls, {})

\* the response is sent; requests are handled independently, and nothing
\* of a request outlives it
Deliver ==
    /\ ~Idle
    /\ req' = [route |-> "none"]
    /\ resp' = [status |-> 0]
    /\ calls' = <<>>
    /\ minted' = {}
    /\ ran' = FALSE
    /\ UNCHANGED session

Next ==
    \/ ChatSendMessage
    \/ ChatSuggestions
    \/ ChatAnalyze
    \/ AuthMe
    \/ AuthRefresh
    \/ AuthLogout
    \/ AuthLogin
    \/ AuthRegister
    \/ MetaUserInfo
    \/ MetaValidateToken
    \/ MetaAdAccounts
    \/ MetaCampaigns
    \/ MetaInsights
    \/ MetaAdSets
    \/ MetaAds
    \/ MetaRealtime
    \/ MetaUpdateStatus
    \/ MetaUpdateBudget
    \/ MetaExecuteStrategy
    \/ MetaPerformance
    \/ MetaStrategies
    \/ CallGenerateChartData
    \/ CallGetInsights
    \/ Deliver

Spec == Init /\ [][Next]_vars

(***************************************************************************)
(* One client across requests.  The client has logged in as u1 and holds   *)
(* the token of that login; it presents a token it holds to /auth/me,      *)
(* /auth/refresh, /auth/logout and /chat/message, keeps the token a        *)
(* refresh returns next to the one it presented, and the clock may pass    *)
(* the exp claim of a token it holds.  The server keeps nothing between    *)
(* two requests: what a request meets is the token and the identity        *)
(* provider.                                                               *)
(***************************************************************************)
\* the token of the login of u1, as login creates it
LoggedIn ==
    [original |-> create_access_token([sub |-> "u1"]),
     refreshed |-> None,
     loggedOut |-> FALSE]

SessionInit ==
    /\ req = [route |-> "none"]
    /\ resp = [status |-> 0]
    /\ calls = <<>>
    /\ minted = {}
    /\ ran = FALSE
    /\ session = LoggedIn

\* a request of the client: the dependency of the router, then the handler;
\* the client notes a logout that was served and keeps a token that was
\* minted for it
SessionEndpoint(route, inputs, outcomes) ==
    \E token \in {session.original, session.refreshed} \ {None}, idp \in IdpStates :
        LET current_user == get_current_user(token, idp)
            request == [route |-> route, entry |-> "http", token |-> token,
                        idp |-> idp, inputs |-> inputs]
        IN  IF Raised(current_user)
            THEN Refuse(request, ErrorResponse(current_user.raised))
            ELSE \E outcome \in outcomes :
                    LET out == Handle(route, current_user.value, inputs, outcome) IN
                    /\ req' = request @@ [outcome |-> outcome]
                    /\ resp' = out.resp
                    /\ calls' = out.calls
                    /\ minted' = out.minted
                    /\ ran' = TRUE
                    /\ session' =
                           [session EXCEPT
                               !.loggedOut = @ \/ route = "/auth/logout",
                               !.refreshed = IF out.minted = {} THEN @
                                             ELSE CHOOSE t \in out.minted : TRUE]

\* GET /auth/me, POST /auth/refresh or POST /auth/logout of the client
SessionAuth ==
    /\ Idle
    /\ \E route \in {"/auth/me", "/auth/refresh", "/auth/logout"} :
           SessionEndpoint(route, EmptyDict, NoOutcome)

\* POST /chat/message of the client
SessionChat ==
    /\ Idle
    /\ \E content \in {MsgHowAreYou, MsgCreative} :
           SessionEndpoint("/chat/message", [content |-> content],
                           ToolAnswers(SelectTool(lower(content))))

\* the clock passes the exp claim of a token the client holds
SessionExpire ==
    /\ Idle
    /\ \E which \in {"original", "refreshed"} :
           /\ session[which] # None
           /\ ~session[which].expired
           /\ session' = [session EXCEPT ![which].expired = TRUE]
    /\ UNCHANGED <<req, resp, calls, minted, ran>>

SessionNext ==
    \/ SessionAuth
    \/ SessionChat
    \/ SessionExpire
    \/ Deliver

SessionSpec == SessionInit /\ [][SessionNext]_vars

(***************************************************************************)
(* Properties of the chat dispatch.                                        *)
(***************************************************************************)
ChatServed == req.route = "/chat/message" /\ ran
ChatText == req.inputs.content

KeywordGroups ==
    <<AccountKeywords, CampaignKeywords, InsightKeywords, AdsetKeywords, AdKeywords>>
GroupTools == <<ToolAccounts, ToolCampaigns, ToolInsights, ToolAdsets, ToolAds>>

\* the groups the lower-cased text of the served chat message matches
MatchedGroups == {g \in 1..5 : AnyIn(lower(ChatText), KeywordGroups[g])}

\* C1: a chat message issues at most one fetch: the one of the first keyword
\* group, in the order accounts, campaigns, insights, adsets, ads, that its
\* lower-cased text matches, whatever later groups it also matches; and none
\* when no group matches.
C1_FirstMatchingGroupDecides ==
    ChatServed =>
        LET matched == MatchedGroups IN
        /\ Len(calls) <= 1
        /\ \A g \in matched :
               (\A h \in matched : g <= h) => calls = <<GroupTools[g]>>
        /\ matched = {} => calls = <<>>

\* a served message that matches the campaign group and at least two later
\* groups, but not the account group, answered by the campaigns fetch alone
C1_Witness ==
    /\ ChatServed
    /\ Cardinality(MatchedGroups) >= 3
    /\ 1 \notin MatchedGroups
    /\ 2 \in MatchedGroups
    /\ calls = <<ToolCampaigns>>

\* C2 (as stated): "show me my campaigns and accounts" fetches the campaigns
\* and returns the campaign list.
C2_AsStated ==
    (ChatServed /\ ChatText = MsgCampaignsAndAccounts) =>
        /\ calls = <<ToolCampaigns>>
        /\ resp.status = 200
        /\ "campaigns" \in DOMAIN resp.data

\* C2 (amended): "show me my campaigns and accounts" fetches the accounts,
\* and nothing else; when the fetch succeeds the returned data is the
\* account list it returned.
C2_DispatchedToAccounts ==
    (ChatServed /\ ChatText = MsgCampaignsAndAccounts) =>
        /\ calls = <<ToolAccounts>>
        /\ ~req.outcome.fails =>
               /\ resp.status = 200
               /\ resp.data = [accounts |-> req.outcome.items]

C2_Witness ==
    /\ ChatServed
    /\ ChatText = MsgCampaignsAndAccounts
    /\ resp.status = 200
    /\ "accounts" \in DOMAIN resp.data
    /\ Len(resp.data.accounts) = 2

(***************************************************************************)
(* Properties of the Graph API client and of the /meta router.             *)
(***************************************************************************)
ReadRoutes ==
    {"/meta/ad-accounts", "/meta/campaigns", "/meta/insights", "/meta/ad-sets",
     "/meta/ads", "/meta/realtime"}

MetaRoutes ==
    ReadRoutes \cup
    {"/meta/validate-token", "/meta/user-info", "/meta/campaigns/status",
     "/meta/campaigns/budget",
     "/meta/strategies", "/meta/strategies/execute", "/meta/performance"}

\* the key of the list in the body of a read route
ListKey(route) ==
    CASE route = "/meta/ad-accounts" -> "accounts"
      [] route = "/meta/campaigns" -> "campaigns"
      [] route = "/meta/ad-sets" -> "ad_sets"
      [] route = "/meta/ads" -> "ads"
      [] OTHER -> "insights"

\* the upstream call failed: no response, a status other than 200, or a 200
\* whose body has no data array
UpstreamFailed(outcome) ==
    \/ outcome.outcome \in {"exception", "timeout"}
    \/ outcome.status_code # 200
    \/ "data" \notin DOMAIN outcome.body

\* C3: a read operation of the ads client whose upstream call fails (non-200
\* status, transport exception, timeout, or a 200 body with an error object
\* and no data array) returns the empty list to the route that called it:
\* the route answers 200 with an empty list, and not the 500 it answers when
\* the client raises.
C3_ReadsReturnEmptyOnFailure ==
    (ran /\ req.route \in ReadRoutes /\ UpstreamFailed(req.outcome)) =>
        /\ resp.status = 200
        /\ resp[ListKey(req.route)] = <<>>
        /\ Len(calls) = 1

C3_Witness ==
    /\ ran
    /\ req.route = "/meta/insights"
    /\ req.outcome.outcome = "timeout"
    /\ resp.status = 200
    /\ resp.insights = <<>>

WriteRoutes ==
    {"/meta/campaigns/status", "/meta/campaigns/budget", "/meta/strategies/execute"}

\* the write operation a served write route called, if it called one
WriteCalled ==
    CASE req.route = "/meta/campaigns/status" ->
             Get(req.inputs.status_update, "status", "") # ""
      [] req.route = "/meta/campaigns/budget" ->
             Get(req.inputs.budget_update, "daily_budget", 0) # 0
      [] OTHER -> TRUE

WriteResult ==
    CASE req.route = "/meta/campaigns/status" ->
             update_campaign_status(req.inputs.campaign_id,
                                    req.inputs.status_update.status, req.outcome).result
      [] req.route = "/meta/campaigns/budget" ->
             update_campaign_budget(req.inputs.campaign_id,
                                    req.inputs.budget_update.daily_budget,
                                    req.outcome).result
      [] OTHER ->
             execute_strategy(req.inputs.strategy, req.outcome[1], req.outcome[2]).result

WriteFailureText ==
    CASE req.route = "/meta/campaigns/status" -> "Failed to update campaign status"
      [] req.route = "/meta/campaigns/budget" -> "Failed to update campaign budget"
      [] OTHER -> "Failed to execute strategy"

\* C4: a /meta write route whose client operation returned false answers 500
\* with a detail that names the failed operation, and never a success body;
\* one whose operation returned true answers 200 with success = true.
C4_WriteResultDecidesStatus ==
    (ran /\ req.route \in WriteRoutes /\ WriteCalled) =>
        IF WriteResult
        THEN resp.status = 200 /\ resp.success = TRUE
        ELSE /\ resp.status = 500
             /\ resp.detail[1] = WriteFailureText
             /\ "success" \notin DOMAIN resp

C4_Witness ==
    /\ ran
    /\ req.route = "/meta/campaigns/status"
    /\ WriteCalled
    /\ req.outcome.outcome = "response"
    /\ req.outcome.status_code = 400
    /\ resp.status = 500

\* C5 (as stated): a status update without a status and a budget update
\* without a budget are answered 400 with no upstream mutation, and a
\* user-info lookup that finds nothing is answered 404.
C5_AsStated ==
    /\ (ran /\ req.route \in {"/meta/campaigns/status", "/meta/campaigns/budget"}
            /\ ~WriteCalled) =>
           (resp.status = 400 /\ calls = <<>>)
    /\ (ran /\ req.route = "/meta/user-info"
            /\ ~Truthy(get_user_info(req.outcome).result.value)) =>
           resp.status = 404

\* a token that is well formed, signed, unexpired and whose subject the
\* identity provider resolves
Authentic(token, idp) ==
    /\ token.form = "jwt"
    /\ token.sig = "good"
    /\ ~token.expired
    /\ token.sub \in RegisteredUsers
    /\ idp = "up"

\* C6 (as stated): on a /meta endpoint reached over HTTP, 401 is answered
\* only for a token that is malformed, expired or of no known user; a valid
\* token of a known user is authenticated and the handler runs.
C6_AsStated ==
    (req.route \in MetaRoutes /\ req.entry = "http" /\ Authentic(req.token, req.idp)) =>
        (ran /\ resp.status # 401)

(***************************************************************************)
(* Properties of the /auth and /chat credential check.                     *)
(***************************************************************************)
GuardedRoutes ==
    {"/auth/me", "/auth/refresh", "/auth/logout",
     "/chat/message", "/chat/suggestions", "/chat/analyze"}

\* C7: on /auth/me, /auth/refresh, /auth/logout and the /chat endpoints a
\* request whose token does not verify, has no subject, or whose subject
\* resolves to no user is answered 401 and its handler does not run: nothing
\* is fetched and no token is minted.
C7_UnauthenticatedNeverRuns ==
    (req.route \in GuardedRoutes /\ ~Authentic(req.token, req.idp)) =>
        /\ resp.status = 401
        /\ ~ran
        /\ calls = <<>>
        /\ minted = {}

C7_Witness ==
    /\ req.route = "/auth/refresh"
    /\ req.token.form = "jwt" /\ req.token.sig = "good" /\ req.token.sub = "u1"
    /\ req.token.expired
    /\ resp.status = 401
    /\ minted = {}

(***************************************************************************)
(* Properties of the averages and of the recommendations.                  *)
(***************************************************************************)
\* C8 (as stated): an average CTR over an empty list is 0 and the response
\* is a normal one: in the campaign analysis, in the insight summary of the
\* chat response and in the account performance summary.
C8_AsStated ==
    /\ (ran /\ req.route = "/chat/analyze" /\ req.outcome.items = <<>>) =>
           resp.status = 200
    /\ (ran /\ req.route = "/chat/message" /\ calls = <<ToolInsights>>
            /\ ~req.outcome.fails /\ req.outcome.items = <<>>) =>
           resp.status = 200
    /\ (ran /\ req.route = "/meta/performance"
            /\ get_campaigns("act_1", req.outcome).result.value = <<>>) =>
           (resp.status = 200 /\ resp.performance.average_ctr = Ratio(0, 1))

\* the campaign list a served chat or analyze request worked on
RecommendedFor ==
    /\ ran
    /\ resp.status = 200
    /\ \/ req.route = "/chat/analyze"
       \/ req.route = "/chat/message" /\ calls = <<ToolCampaigns>>

FetchedCampaigns == IF req.outcome.fails THEN <<>> ELSE req.outcome.items

CampaignNames == {c.name : c \in CampaignPool}

\* the entries of a given kind that name n
Advices(recommendations, kind, n) ==
    {i \in 1..Len(recommendations) :
        recommendations[i].kind = kind /\ recommendations[i].name = n}

\* the campaigns named n with ctr below 1.5, an absent ctr counting as 0
LowCtrCampaigns(campaigns, n) ==
    {i \in 1..Len(campaigns) :
        /\ campaigns[i].name = n
        /\ (IF "ctr" \in DOMAIN campaigns[i] THEN campaigns[i].ctr ELSE 0) < 150}

\* the campaigns named n with spend above 2000 and status ACTIVE
CostlyActiveCampaigns(campaigns, n) ==
    {i \in 1..Len(campaigns) :
        /\ campaigns[i].name = n
        /\ "spend" \in DOMAIN campaigns[i] /\ campaigns[i].spend > 2000
        /\ "status" \in DOMAIN campaigns[i] /\ campaigns[i].status = "ACTIVE"}

\* C9: the recommendations hold, for every campaign name, as many low-CTR
\* entries naming it as the list has campaigns of that name with ctr below
\* 1.5 (an absent ctr counting as 0): one per such campaign, none for a
\* campaign at or above 1.5.
C9_LowCtrOncePerCampaign ==
    RecommendedFor =>
        \A n \in CampaignNames :
            Cardinality(Advices(resp.recommendations, "low_ctr", n))
            = Cardinality(LowCtrCampaigns(FetchedCampaigns, n))

\* a campaign without ctr and one at exactly 1.5: one low-CTR entry, for the first
C9_Witness ==
    /\ RecommendedFor
    /\ Len(FetchedCampaigns) = 2
    /\ "ctr" \notin DOMAIN FetchedCampaigns[1]
    /\ Get(FetchedCampaigns[2], "ctr", 0) = 150
    /\ Len(resp.recommendations) = 1
    /\ resp.recommendations[1].kind = "low_ctr"
    /\ resp.recommendations[1].name = FetchedCampaigns[1].name

\* C10: the recommendations hold, for every campaign name, as many
\* spend-review entries naming it as the list has campaigns of that name with
\* spend above 2000 and status ACTIVE: none for a paused campaign above 2000
\* nor for an active one at 2000 or less.
C10_SpendReviewIffCostlyAndActive ==
    RecommendedFor =>
        \A n \in CampaignNames :
            Cardinality(Advices(resp.recommendations, "spend_review", n))
            = Cardinality(CostlyActiveCampaigns(FetchedCampaigns, n))

\* a paused campaign above 2000 next to an active one above 2000: one spend
\* review, for the active one
C10_Witness ==
    /\ RecommendedFor
    /\ \E i \in 1..Len(FetchedCampaigns) :
           FetchedCampaigns[i].status = "PAUSED" /\ Get(FetchedCampaigns[i], "spend", 0) > 2000
    /\ \E i \in 1..Len(FetchedCampaigns) :
           FetchedCampaigns[i].status = "ACTIVE" /\ Get(FetchedCampaigns[i], "spend", 0) > 2000
    /\ Cardinality({i \in 1..Len(resp.recommendations) :
                       resp.recommendations[i].kind = "spend_review"}) = 1

(***************************************************************************)
(* Properties of the order of the recommendation list.                     *)
(***************************************************************************)
\* the kinds of advisory a campaign calls for, low CTR first
ExpectedKinds(campaign) ==
    (IF (IF "ctr" \in DOMAIN campaign THEN campaign.ctr ELSE 0) < 150
     THEN <<"low_ctr">> ELSE <<>>)
    \o (IF /\ "spend" \in DOMAIN campaign /\ campaign.spend > 2000
           /\ "status" \in DOMAIN campaign /\ campaign.status = "ACTIVE"
        THEN <<"spend_review">> ELSE <<>>)

\* owner assigns every entry of recs to a campaign of campaigns so that the
\* entries follow the campaign order and each campaign owns, in order, the
\* advisories it calls for, under its own name
OwnsInOrder(owner, recs, campaigns) ==
    /\ \A j, k \in 1..Len(recs) : j < k => owner[j] <= owner[k]
    /\ \A k \in 1..Len(recs) : recs[k].name = campaigns[owner[k]].name
    /\ \A i \in 1..Len(campaigns) :
           LET mine == {k \in 1..Len(recs) : owner[k] = i}
               kinds == ExpectedKinds(campaigns[i])
           IN  /\ Cardinality(mine) = Len(kinds)
               /\ \A k \in mine :
                      recs[k].kind = kinds[Cardinality({j \in mine : j <= k})]

\* C11: the recommendation list is the concatenation, in campaign order, of
\* each campaign's own advisories: it has at most two entries per campaign,
\* no entry of a later campaign precedes one of an earlier campaign, and a
\* campaign that meets both conditions owns two adjacent entries, the low-CTR
\* one before the spend-review one.
C11_ConcatenationInCampaignOrder ==
    RecommendedFor =>
        /\ Len(resp.recommendations) <= 2 * Len(FetchedCampaigns)
        /\ \E owner \in [1..Len(resp.recommendations) -> 1..Len(FetchedCampaigns)] :
               OwnsInOrder(owner, resp.recommendations, FetchedCampaigns)

\* a campaign calling for one advisory followed by one calling for both:
\* three entries, the first campaign's, then low CTR and spend review of the
\* second
C11_Witness ==
    /\ RecommendedFor
    /\ Len(FetchedCampaigns) = 2
    /\ FetchedCampaigns[1].name = "Brand Awareness"
    /\ FetchedCampaigns[2].name = "Low And Costly"
    /\ Len(resp.recommendations) = 3
    /\ resp.recommendations[1].name = "Brand Awareness"
    /\ resp.recommendations[2].kind = "low_ctr"
    /\ resp.recommendations[3].kind = "spend_review"
    /\ resp.recommendations[3].name = "Low And Costly"

(***************************************************************************)
(* Properties of the optimization strategies.                              *)
(***************************************************************************)
StrategiesServed == ran /\ req.route = "/meta/strategies" /\ resp.status = 200

\* the campaign list the generator fetched, and the insight list it fetched
\* for campaign i
StrategyCampaigns == ResponseData(req.outcome.campaigns).value
InsightsOf(i) ==
    IF req.outcome.insights[i] = NotCalled THEN <<>>
    ELSE ResponseData(req.outcome.insights[i]).value

\* the campaigns that are ACTIVE and have a non-empty insight list
Qualifying ==
    {i \in 1..Len(StrategyCampaigns) :
        /\ "status" \in DOMAIN StrategyCampaigns[i]
        /\ StrategyCampaigns[i].status = "ACTIVE"
        /\ InsightsOf(i) # <<>>}

\* the position of qualifying campaign i among the qualifying campaigns
Rank(i) == Cardinality({j \in Qualifying : j <= i})

\* a field of an insight record, 0 when it is missing
Field(insight, key) == IF key \in DOMAIN insight THEN insight[key] ELSE 0

\* processing campaign i raises: it is ACTIVE and lacks its id, or it is
\* ACTIVE with a non-empty insight list and lacks its name
FaultAt(i) ==
    /\ "status" \in DOMAIN StrategyCampaigns[i]
    /\ StrategyCampaigns[i].status = "ACTIVE"
    /\ \/ "id" \notin DOMAIN StrategyCampaigns[i]
       \/ InsightsOf(i) # <<>> /\ "name" \notin DOMAIN StrategyCampaigns[i]

\* some campaign of the fetched list raises
GeneratorFaulted == \E i \in 1..Len(StrategyCampaigns) : FaultAt(i)

\* C12: when no campaign record raises, every generated strategy has the rules min_ctr 1.0, max_cpc 2.0,
\* target_cpm 15.0 and budget_threshold 0.8 times the daily budget of its
\* campaign, and its four flags are predicates of its insight record alone:
\* pause_low_performing iff ctr < 1.0, increase_budget iff cpc < 1.5 and
\* ctr > 2.0, adjust_bidding iff cpc > 2.0, expand_audience iff reach < 10000,
\* a missing field counting as 0.
C12_RulesAndFlags ==
    (StrategiesServed /\ ~GeneratorFaulted) =>
        \A i \in Qualifying :
            LET strategy == resp.strategies[Rank(i)]
                insight == InsightsOf(i)[1]
                campaign == StrategyCampaigns[i]
            IN  /\ strategy.rules.min_ctr = 100
                /\ strategy.rules.max_cpc = 200
                /\ strategy.rules.target_cpm = 1500
                /\ strategy.rules.budget_threshold_tenths = 8 * Field(campaign, "daily_budget")
                /\ strategy.actions.pause_low_performing <=> Field(insight, "ctr") < 100
                /\ strategy.actions.increase_budget <=>
                       (Field(insight, "cpc") < 150 /\ Field(insight, "ctr") > 200)
                /\ strategy.actions.adjust_bidding <=> Field(insight, "cpc") > 200
                /\ strategy.actions.expand_audience <=> Field(insight, "reach") < 10000

\* a strategy from an insight with cpc 1.49 and ctr exactly 2.0 (no budget
\* increase) next to one from an insight with cpc 1.49, ctr 2.01 and no
\* reach (budget increase, audience expansion)
C12_Witness ==
    /\ StrategiesServed
    /\ Len(resp.strategies) = 2
    /\ resp.strategies[1].performance_metrics.ctr = 200
    /\ resp.strategies[1].performance_metrics.cpc = 149
    /\ ~resp.strategies[1].actions.increase_budget
    /\ ~resp.strategies[1].actions.expand_audience
    /\ resp.strategies[2].performance_metrics.ctr = 201
    /\ resp.strategies[2].actions.increase_budget
    /\ resp.strategies[2].actions.expand_audience
    /\ ~resp.strategies[2].actions.pause_low_performing

\* C13: when no campaign record raises, the generator returns one strategy
\* per campaign that is ACTIVE and has a non-empty 7-day insight list, built
\* from the first record of that list, none for any other campaign, and in
\* the order of the campaigns.
C13_OnePerQualifyingCampaignInOrder ==
    (StrategiesServed /\ ~GeneratorFaulted) =>
        /\ Len(resp.strategies) = Cardinality(Qualifying)
        /\ \A i \in Qualifying :
               LET strategy == resp.strategies[Rank(i)]
                   first == InsightsOf(i)[1]
               IN  /\ strategy.campaign_id = StrategyCampaigns[i].id
                   /\ strategy.campaign_name = StrategyCampaigns[i].name
                   /\ strategy.performance_metrics.spend = Field(first, "spend")
                   /\ strategy.performance_metrics.ctr = Field(first, "ctr")
                   /\ strategy.performance_metrics.cpc = Field(first, "cpc")

\* a paused campaign ahead of an active one whose insight list has two
\* records: one strategy, for the second campaign, from the first record
C13_Witness ==
    /\ StrategiesServed
    /\ Len(StrategyCampaigns) = 2
    /\ StrategyCampaigns[1].status = "PAUSED"
    /\ StrategyCampaigns[2].status = "ACTIVE"
    /\ Len(InsightsOf(2)) = 2
    /\ Len(resp.strategies) = 1
    /\ resp.strategies[1].campaign_id = StrategyCampaigns[2].id
    /\ resp.strategies[1].performance_metrics.spend = 80

(***************************************************************************)
(* Properties of the charts.                                               *)
(***************************************************************************)
\* a call of generate_chart_data that returned a chart
ChartBuilt ==
    /\ ran
    /\ req.route = "generate_chart_data"
    /\ "value" \in DOMAIN resp
    /\ resp.value # None

\* the records the chart of the call was built from
ChartRecords ==
    LET key == IF req.inputs.data_type = "spend_trend" THEN "insights" ELSE "campaigns" IN
    IF key \in DOMAIN req.inputs.data THEN req.inputs.data[key] ELSE <<>>

\* C14: a chart built from N records has N labels and N data points in every
\* series, label i and data point i taken from record i: the series CTR and
\* spend (in major units) for campaign_performance, the one series daily
\* spend (in major units) for spend_trend; all are empty for N = 0.
C14_OnePointPerRecord ==
    ChartBuilt =>
        LET chart == resp.value
            N == Len(ChartRecords)
        IN  /\ Len(chart.labels) = N
            /\ \A d \in 1..Len(chart.datasets) : Len(chart.datasets[d].data) = N
            /\ req.inputs.data_type = "campaign_performance" =>
                   /\ Len(chart.datasets) = 2
                   /\ \A i \in 1..N :
                          /\ chart.labels[i] = ChartRecords[i].name
                          /\ chart.datasets[1].data[i] = ChartRecords[i].ctr
                          /\ chart.datasets[2].data[i] = [num |-> ChartRecords[i].spend,
                                                          den |-> 100]
            /\ req.inputs.data_type = "spend_trend" =>
                   /\ Len(chart.datasets) = 1
                   /\ \A i \in 1..N :
                          /\ chart.labels[i] = ChartRecords[i].date
                          /\ chart.datasets[1].data[i] = [num |-> ChartRecords[i].spend,
                                                          den |-> 100]

\* a bar chart built from two different campaigns
C14_Witness ==
    /\ ChartBuilt
    /\ req.inputs.data_type = "campaign_performance"
    /\ Len(ChartRecords) = 2
    /\ ChartRecords[1].name # ChartRecords[2].name
    /\ resp.value.labels = <<ChartRecords[1].name, ChartRecords[2].name>>
    /\ Len(resp.value.datasets[2].data) = 2

(***************************************************************************)
(* Properties of the chart and of the text of a chat response.             *)
(***************************************************************************)
\* the chart the response to the served chat message carries, if any
ChartAttached == resp.status = 200 /\ resp.chart_data # None

ChartAsked ==
    \E kw \in {Kw_chart, Kw_graph, Kw_visualize, Kw_show} : Contains(lower(ChatText), kw)

\* C15 (as stated): the response to a chat message carries a chart if and
\* only if the message holds a chart keyword and the campaigns or the insights
\* fetch was selected: the bar chart campaign_performance after the campaigns
\* fetch, the line chart spend_trend after the insights fetch.
C15_AsStated ==
    ChatServed =>
        /\ ChartAttached <=>
               (ChartAsked /\ (calls = <<ToolCampaigns>> \/ calls = <<ToolInsights>>))
        /\ (ChartAttached /\ calls = <<ToolCampaigns>>) =>
               (resp.chart_data.type = "bar" /\ resp.chart_data.name = "campaign_performance")
        /\ (ChartAttached /\ calls = <<ToolInsights>>) =>
               (resp.chart_data.type = "line" /\ resp.chart_data.name = "spend_trend")

\* the parts of the text of a served chat response, and their blocks
ResponseText == resp.response
Blocks == {ResponseText[k].block : k \in 1..Len(ResponseText)}

\* the place of a block in the text
BlockOrder(block) ==
    CASE block = "data" -> 1
      [] block = "recommendations" -> 2
      [] block = "chart" -> 3
      [] block = "tip" -> 4
      [] block = "help" -> 5

\* C16: the text of a chat response is, in this order, the data listing, the
\* recommendations, the chart notice and the performance tip, each present
\* exactly when its condition holds (listable data, a non-empty recommendation
\* list, a chart, "performance" or "how" in the lower-cased message); the
\* help message is present exactly when none of them is, and is then the
\* whole text.
C16_BlocksInOrder ==
    (ChatServed /\ resp.status = 200) =>
        /\ \A j, k \in 1..Len(ResponseText) :
               j < k => BlockOrder(ResponseText[j].block) <= BlockOrder(ResponseText[k].block)
        /\ "data" \in Blocks <=>
               \E key \in {"accounts", "campaigns", "insights"} : key \in DOMAIN resp.data
        /\ "recommendations" \in Blocks <=> resp.recommendations # <<>>
        /\ "chart" \in Blocks <=> resp.chart_data # None
        /\ "tip" \in Blocks <=>
               (Contains(lower(ChatText), Kw_performance) \/ Contains(lower(ChatText), Kw_how))
        /\ "help" \in Blocks <=> Blocks \cap {"data", "recommendations", "chart", "tip"} = {}
        /\ "help" \in Blocks => Len(ResponseText) = 1

\* a response whose text has all four blocks, and so no help message
C16_Witness ==
    /\ ChatServed
    /\ resp.status = 200
    /\ Blocks = {"data", "recommendations", "chart", "tip"}
    /\ ResponseText[1].block = "data"
    /\ ResponseText[Len(ResponseText)].block = "tip"

\* the chat message "Show me my campaigns" served while the campaign fetch
\* returns the campaigns (ctr 2.56, ACTIVE, spend 2450) and (ctr 1.35,
\* PAUSED, spend 1890)
ShowMyCampaignsServed ==
    /\ ChatServed
    /\ ChatText = MsgShowCampaigns
    /\ ~req.outcome.fails
    /\ req.outcome.items = <<CampaignSummerSale, CampaignBrandAwareness>>

\* C17: that request is answered 200 with a text that enumerates the two
\* campaigns, one line each in fetch order, and with recommendations whose
\* only low-CTR advisory is for the second campaign.
C17_ShowMyCampaigns ==
    ShowMyCampaignsServed =>
        /\ resp.status = 200
        /\ ResponseText[1] = [block |-> "data", kind |-> "campaigns", count |-> 2]
        /\ ResponseText[2].kind = "campaign" /\ ResponseText[2].name = "Summer Sale Campaign"
        /\ ResponseText[3].kind = "campaign" /\ ResponseText[3].name = "Brand Awareness"
        /\ Cardinality({k \in 1..Len(ResponseText) : ResponseText[k].kind = "campaign"}) = 2
        /\ \E k \in 1..Len(resp.recommendations) :
               /\ resp.recommendations[k].kind = "low_ctr"
               /\ resp.recommendations[k].name = "Brand Awareness"
               /\ resp.recommendations[k].ctr = 135
        /\ \A k \in 1..Len(resp.recommendations) :
               resp.recommendations[k].kind = "low_ctr" =>
                   resp.recommendations[k].name = "Brand Awareness"

\* the request served: besides the low-CTR advisory of the second campaign
\* the list holds the spend review of the first, which is ACTIVE above 2000
C17_Witness ==
    /\ ShowMyCampaignsServed
    /\ resp.status = 200
    /\ Len(resp.recommendations) = 2
    /\ resp.recommendations[1].kind = "spend_review"
    /\ resp.recommendations[1].name = "Summer Sale Campaign"
    /\ resp.recommendations[2].kind = "low_ctr"

(***************************************************************************)
(* Properties of the date range of an insights request.                    *)
(***************************************************************************)
\* the one upstream call of the default window, and the result of a request
\* that names no date
DefaultWindowCall == <<HttpCall("GET", <<"c1", "insights">>, [date_preset |-> "last_30d"])>>
DefaultWindowResult == ResponseData(req.outcome).value

\* an insights request at the route with exactly one of the two dates
RouteWithOneDate ==
    /\ ran
    /\ req.route = "/meta/insights"
    /\ (req.inputs.start_date = "") # (req.inputs.end_date = "")

\* a direct call of get_insights with a range that holds one of the two dates
CallWithOneDate ==
    /\ ran
    /\ req.route = "get_insights"
    /\ req.inputs.date_range # None
    /\ DOMAIN req.inputs.date_range \in {{"start"}, {"end"}}

\* C18 (as stated): an insights request with only one of the two dates
\* behaves as one with neither, at the route and in a direct call of the
\* client: the upstream call asks for the default 30-day window and its data
\* is returned; a custom range is sent only when both dates are supplied.
C18_AsStated ==
    /\ RouteWithOneDate =>
           (calls = DefaultWindowCall /\ resp.status = 200
            /\ resp.insights = DefaultWindowResult)
    /\ CallWithOneDate =>
           (calls = DefaultWindowCall /\ resp.value = DefaultWindowResult)
    /\ (ran /\ req.route \in {"/meta/insights", "get_insights"}) =>
           \A k \in 1..Len(calls) :
               calls[k].params.date_preset = "custom" =>
                   IF req.route = "get_insights"
                   THEN req.inputs.date_range # None
                        /\ DOMAIN req.inputs.date_range = {"start", "end"}
                   ELSE req.inputs.start_date # "" /\ req.inputs.end_date # ""

(***************************************************************************)
(* Properties of login and registration.                                   *)
(***************************************************************************)
LoginServed == ran /\ req.route = "/auth/login"
RegisterServed == ran /\ req.route = "/auth/register"

\* C19 (as stated): a login is answered with a token whose subject is the
\* id of the authenticated user, or with 401; a login that returns no token,
\* that of a user whose account is not active included, is answered 401.
C19_AsStated ==
    LoginServed =>
        \/ /\ resp.status = 200
           /\ req.outcome.outcome = "user"
           /\ resp.access_token.sub = req.outcome.id
           /\ minted = {resp.access_token}
        \/ /\ resp.status = 401
           /\ minted = {}

\* the identity provider holds a user with the email of the registration
EmailTaken ==
    /\ req.outcome.list_users.outcome = "users"
    /\ req.inputs.email \in req.outcome.list_users.emails

\* C20 (as stated): a registration whose email the identity provider already
\* holds is answered 400 "User with this email already exists" without a
\* call of create_user; create_user is called only when the lookup found no
\* user with that email.
C20_AsStated ==
    RegisterServed =>
        /\ EmailTaken =>
               /\ resp.status = 400
               /\ resp.detail = "User with this email already exists"
               /\ \A k \in 1..Len(calls) : calls[k] # "sign_up"
        /\ (\E k \in 1..Len(calls) : calls[k] = "sign_up") => ~EmailTaken

(***************************************************************************)
(* Properties of the outcomes and of the calls of the ads client.          *)
(***************************************************************************)
\* the upstream call was answered 200 with an error object in the body
ErrorIn200 ==
    /\ req.outcome.outcome = "response"
    /\ req.outcome.status_code = 200
    /\ "error" \in DOMAIN req.outcome.body

\* C21 (as stated): a 200 response whose body carries an error object is a
\* failure for every operation of the ads client: a read returns the empty
\* list, the token validation returns false, and a status or budget update
\* returns false, so that its route does not answer with a success.
C21_AsStated ==
    /\ (ran /\ req.route \in ReadRoutes /\ ErrorIn200) =>
           resp[ListKey(req.route)] = <<>>
    /\ (ran /\ req.route = "/meta/validate-token" /\ ErrorIn200) => ~resp.valid
    /\ (ran /\ req.route \in {"/meta/campaigns/status", "/meta/campaigns/budget"}
            /\ WriteCalled /\ ErrorIn200) =>
           (~WriteResult /\ resp.status # 200)

\* a served invocation of one single-resource operation of the ads client:
\* a listing, an insights fetch, a status update or a budget update
SingleOperationCalled ==
    /\ ran
    /\ \/ req.route \in {"/meta/ad-accounts", "/meta/campaigns", "/meta/insights",
                         "/meta/ad-sets", "/meta/ads", "get_insights"}
       \/ req.route \in {"/meta/campaigns/status", "/meta/campaigns/budget"} /\ WriteCalled

\* C22 (as stated): every invocation of a single-resource operation of the
\* ads client issues exactly one upstream HTTP call, whether the call
\* succeeds or fails.
C22_AsStated == SingleOperationCalled => Len(calls) = 1

(***************************************************************************)
(* Properties of the execution of a strategy.                              *)
(***************************************************************************)
ExecuteServed == ran /\ req.route = "/meta/strategies/execute"

\* the status update and the budget update among the calls issued
StatusUpdatesIssued == {k \in 1..Len(calls) : "status" \in DOMAIN calls[k].params}
BudgetUpdatesIssued == {k \in 1..Len(calls) : "daily_budget" \in DOMAIN calls[k].params}

\* an update the execution issued was not answered 200
IssuedUpdateFailed ==
    \/ StatusUpdatesIssued # {} /\ ~WriteSucceeded(req.outcome[1])
    \/ BudgetUpdatesIssued # {} /\ ~WriteSucceeded(req.outcome[2])

\* C23 (as stated): the execution of a strategy succeeds only if every
\* update it issued succeeded: when the status update or the budget update
\* it issued returned false, execute_strategy returns false and the route
\* answers 500.
C23_AsStated ==
    (ExecuteServed /\ IssuedUpdateFailed) =>
        (~WriteResult /\ resp.status = 500)

\* a flag of the strategy being executed
Flag(name) ==
    /\ "actions" \in DOMAIN req.inputs.strategy
    /\ name \in DOMAIN req.inputs.strategy.actions
    /\ req.inputs.strategy.actions[name]

\* C24: the execution of a strategy issues at most two updates, in a fixed
\* order: a status update to PAUSED exactly when pause_low_performing is
\* set, then a budget update exactly when increase_budget is set, whatever
\* the outcome of the pause; nothing else is issued (no update is undone); a
\* strategy with neither flag issues nothing and succeeds; a strategy
\* without campaign_id or actions fails and issues nothing.
C24_UpdatesInFixedOrder ==
    ExecuteServed =>
        IF {"campaign_id", "actions"} \subseteq DOMAIN req.inputs.strategy
        THEN /\ Len(calls) <= 2
             /\ Cardinality(StatusUpdatesIssued) = (IF Flag("pause_low_performing") THEN 1 ELSE 0)
             /\ Cardinality(BudgetUpdatesIssued) = (IF Flag("increase_budget") THEN 1 ELSE 0)
             /\ Len(calls) = Cardinality(StatusUpdatesIssued) + Cardinality(BudgetUpdatesIssued)
             /\ \A k \in StatusUpdatesIssued : calls[k].params.status = "PAUSED"
             /\ \A j \in StatusUpdatesIssued, k \in BudgetUpdatesIssued : j < k
             /\ (~Flag("pause_low_performing") /\ ~Flag("increase_budget")) =>
                    (calls = <<>> /\ resp.status = 200 /\ resp.success)
        ELSE calls = <<>> /\ resp.status = 500

\* both flags set and the pause answered 400: the pause, then the budget
\* update, and nothing after them
C24_Witness ==
    /\ ExecuteServed
    /\ Flag("pause_low_performing")
    /\ Flag("increase_budget")
    /\ req.outcome[1].outcome = "response"
    /\ req.outcome[1].status_code = 400
    /\ Len(calls) = 2
    /\ calls[1].params = [status |-> "PAUSED"]
    /\ "daily_budget" \in DOMAIN calls[2].params

(***************************************************************************)
(* Faults inside the strategy generator.                                   *)
(***************************************************************************)
\* C25: the strategy generator is all-or-nothing: when processing a campaign
\* raises (an ACTIVE record without its id, or without its name once its
\* insights are fetched), the result is the empty list, whatever was built
\* for earlier campaigns; the result is never a partial list (it is empty
\* or holds one strategy per qualifying campaign), and the generator never
\* raises (the route answers 200).
C25_AllOrNothing ==
    (ran /\ req.route = "/meta/strategies") =>
        /\ resp.status = 200
        /\ GeneratorFaulted => resp.strategies = <<>>
        /\ Len(resp.strategies) \in {0, Cardinality(Qualifying)}

\* a well-formed ACTIVE campaign with insights ahead of a nameless ACTIVE
\* campaign with insights: three calls, and the first strategy is discarded
C25_Witness ==
    /\ StrategiesServed
    /\ Len(StrategyCampaigns) = 2
    /\ ~FaultAt(1)
    /\ 1 \in Qualifying
    /\ FaultAt(2)
    /\ "id" \in DOMAIN StrategyCampaigns[2]
    /\ Len(calls) = 3
    /\ resp.strategies = <<>>

(***************************************************************************)
(* Flags of a generated strategy that exclude each other.                  *)
(***************************************************************************)
\* the updates the execution of strategy issues when both POSTs succeed
UpdatesOf(strategy) ==
    execute_strategy(strategy,
                     [outcome |-> "response", status_code |-> 200, body |-> [success |-> TRUE]],
                     [outcome |-> "response", status_code |-> 200, body |-> [success |-> TRUE]]).calls

\* C26: in every generated strategy increase_budget is never set together
\* with pause_low_performing nor together with adjust_bidding, so that the
\* execution of a generated strategy never issues both a status update and
\* a budget update.
C26_BudgetFlagExcludesPauseAndBidding ==
    StrategiesServed =>
        \A k \in 1..Len(resp.strategies) :
            LET strategy == resp.strategies[k]
                issued == UpdatesOf(strategy)
            IN  /\ ~(strategy.actions.increase_budget /\ strategy.actions.pause_low_performing)
                /\ ~(strategy.actions.increase_budget /\ strategy.actions.adjust_bidding)
                /\ ~(/\ \E j \in 1..Len(issued) : "status" \in DOMAIN issued[j].params
                     /\ \E j \in 1..Len(issued) : "daily_budget" \in DOMAIN issued[j].params)

\* a strategy that raises the budget next to one that pauses and adjusts the
\* bidding: executing the first issues the budget update alone, executing
\* the second the status update alone
C26_Witness ==
    /\ StrategiesServed
    /\ Len(resp.strategies) = 2
    /\ resp.strategies[1].actions.increase_budget
    /\ resp.strategies[2].actions.pause_low_performing
    /\ resp.strategies[2].actions.adjust_bidding
    /\ Len(UpdatesOf(resp.strategies[1])) = 1
    /\ "daily_budget" \in DOMAIN UpdatesOf(resp.strategies[1])[1].params
    /\ Len(UpdatesOf(resp.strategies[2])) = 1
    /\ UpdatesOf(resp.strategies[2])[1].params = [status |-> "PAUSED"]

(***************************************************************************)
(* The account performance summary.                                        *)
(***************************************************************************)
PerformanceServed == ran /\ req.route = "/meta/performance"

\* the campaigns the summary fetched, and those of them that are ACTIVE
SummaryCampaigns == ResponseData(req.outcome).value
ActiveAt ==
    {i \in 1..Len(SummaryCampaigns) :
        /\ "status" \in DOMAIN SummaryCampaigns[i]
        /\ SummaryCampaigns[i].status = "ACTIVE"}

\* the sum of a metric over the campaigns at the positions idx
RECURSIVE TotalAt(_, _)
TotalAt(idx, key) ==
    IF idx = {} THEN 0
    ELSE LET i == CHOOSE j \in idx : TRUE
         IN  Field(SummaryCampaigns[i], key) + TotalAt(idx \ {i}, key)

\* C27: total_campaigns counts every fetched campaign; active_campaigns,
\* total_spend, total_impressions and total_clicks accumulate over the
\* ACTIVE campaigns only; average_ctr is total_clicks / total_impressions
\* * 100 when total_impressions > 0 and 0 otherwise, average_cpc is
\* total_spend / total_clicks when total_clicks > 0 and 0 otherwise; so
\* active_campaigns <= total_campaigns, and no quotient has denominator 0.
C27_SummaryTotalsAndAverages ==
    PerformanceServed =>
        LET p == resp.performance
            spend == TotalAt(ActiveAt, "spend")
            impressions == TotalAt(ActiveAt, "impressions")
            clicks == TotalAt(ActiveAt, "clicks")
        IN  /\ resp.status = 200
            /\ p.total_campaigns = Len(SummaryCampaigns)
            /\ p.active_campaigns = Cardinality(ActiveAt)
            /\ p.active_campaigns <= p.total_campaigns
            /\ p.total_spend = spend
            /\ p.total_impressions = impressions
            /\ p.total_clicks = clicks
            /\ p.average_ctr = (IF impressions > 0 THEN [num |-> clicks * 100, den |-> impressions]
                                ELSE [num |-> 0, den |-> 1])
            /\ p.average_cpc = (IF clicks > 0 THEN [num |-> spend, den |-> clicks]
                                ELSE [num |-> 0, den |-> 1])
            /\ p.average_ctr.den # 0
            /\ p.average_cpc.den # 0

\* a paused campaign with metrics next to an ACTIVE one with impressions and
\* no click: two campaigns, one active, the paused metrics left out, an
\* average CTR of 0 / 1000 and an average CPC of 0
C27_Witness ==
    /\ PerformanceServed
    /\ Len(SummaryCampaigns) = 2
    /\ SummaryCampaigns[1].status = "PAUSED"
    /\ SummaryCampaigns[1].spend = 1890
    /\ resp.performance.total_campaigns = 2
    /\ resp.performance.active_campaigns = 1
    /\ resp.performance.total_spend = 500
    /\ resp.performance.total_impressions = 1000
    /\ resp.performance.total_clicks = 0
    /\ resp.performance.average_ctr = [num |-> 0, den |-> 1000]
    /\ resp.performance.average_cpc = [num |-> 0, den |-> 1]

(***************************************************************************)
(* The tip, the help message and the messages without a keyword.           *)
(***************************************************************************)
\* the lower-cased text of the served chat message holds kw
Says(kw) == Contains(lower(ChatText), kw)

\* C28: the tip is part of the text of a chat response exactly when the
\* lower-cased message holds "performance" or "how"; "show" holds "how", so
\* the response to a message with "show" carries the tip and is never the
\* help message.
C28_TipIffPerformanceOrHow ==
    (ChatServed /\ resp.status = 200) =>
        LET tips == {k \in 1..Len(resp.response) : resp.response[k].block = "tip"}
            helps == {k \in 1..Len(resp.response) : resp.response[k].block = "help"}
        IN  /\ tips # {} <=> (Says(Kw_performance) \/ Says(Kw_how))
            /\ Cardinality(tips) <= 1
            /\ Says(Kw_show) => (tips # {} /\ helps = {})

\* "show" and nothing else: no keyword group matches, nothing is fetched,
\* and the text is the tip alone where the help message would have been
C28_Witness ==
    /\ ChatServed
    /\ resp.status = 200
    /\ ChatText = <<"s","h","o","w">>
    /\ calls = <<>>
    /\ resp.response = <<[block |-> "tip", kind |-> "advice"]>>

\* C29: a chat message without a keyword of the five groups fetches
\* nothing: the data is empty, chart_data is null, the recommendations are
\* empty, and the text is the help message, or the tip alone when the
\* message holds "how".  In every chat response the recommendations are
\* non-empty only when the campaigns branch was selected.
C29_NoKeywordNoFetch ==
    /\ (ChatServed /\ MatchedGroups = {}) =>
           /\ calls = <<>>
           /\ resp.status = 200
           /\ resp.data = EmptyDict
           /\ resp.chart_data = None
           /\ resp.recommendations = <<>>
           /\ resp.response = (IF Says(Kw_how)
                               THEN <<[block |-> "tip", kind |-> "advice"]>>
                               ELSE <<[block |-> "help", kind |-> "help"]>>)
    /\ (ChatServed /\ resp.status = 200 /\ resp.recommendations # <<>>) =>
           /\ 2 \in MatchedGroups
           /\ 1 \notin MatchedGroups
           /\ calls = <<ToolCampaigns>>

\* "hello": no group matches and "how" is absent, so nothing is fetched and
\* the text is the help message
C29_Witness ==
    /\ ChatServed
    /\ ChatText = <<"h","e","l","l","o">>
    /\ MatchedGroups = {}
    /\ calls = <<>>
    /\ resp.status = 200
    /\ resp.data = EmptyDict
    /\ resp.chart_data = None
    /\ resp.recommendations = <<>>
    /\ resp.response = <<[block |-> "help", kind |-> "help"]>>

(***************************************************************************)
(* Logout and refresh in a client session.                                 *)
(***************************************************************************)
\* a request of the client that is being answered
SessionRequest == req.route \in {"/auth/me", "/auth/refresh", "/auth/logout", "/chat/message"}

\* C30: logout changes nothing the server looks at: after a logout was
\* served, a token the client holds still enters the handlers of /auth/me,
\* /auth/refresh, /auth/logout and /chat/message for as long as it has not
\* expired (the identity provider answering), and is refused once it has;
\* /auth/refresh mints one unexpired token with the subject of the token
\* presented, and the token presented goes on authenticating after it.
C30_LogoutAndRefreshLeaveTokensValid ==
    /\ (SessionRequest /\ (session.loggedOut \/ session.refreshed # None)) =>
           /\ (~req.token.expired /\ req.idp = "up") => (ran /\ resp.status # 401)
           /\ req.token.expired => (~ran /\ resp.status = 401)
    /\ (ran /\ req.route = "/auth/refresh") =>
           /\ Cardinality(minted) = 1
           /\ \A t \in minted :
                  /\ t.sub = req.token.sub
                  /\ ~t.expired
                  /\ resp.access_token = t
                  /\ session.refreshed = t
           /\ session.original.sub = req.token.sub

\* after a logout and a refresh, the token of the login is presented to
\* /auth/me and answered 200 with the user u1
C30_Witness ==
    /\ session.loggedOut
    /\ session.refreshed # None
    /\ req.route = "/auth/me"
    /\ req.token = session.original
    /\ ~req.token.expired
    /\ ran
    /\ resp.status = 200

====
